---- MODULE Spec2Model ----
(***************************************************************************)
(* A model of py/substep_samplers.py: the step results, the dynamic        *)
(* interpolation, the bounded history and the integrators' step            *)
(* generators, driven by the outer sampling loop.                          *)
(*                                                                         *)
(* Numbers.  A tensor or float is an exact rational <<n, d>> in lowest     *)
(* terms with d > 0, extended with the IEEE-754 specials the code can      *)
(* produce: <<1, 0>> is +inf, <<-1, 0>> is -inf and <<0, 0>> is NaN.       *)
(* Logarithms are taken to base 2, which is exact on the model's noise     *)
(* levels (powers of 4); exp is then 2^t.                                  *)
(* An optional value (a Python None default) is <<>> or <<v>>.             *)
(***************************************************************************)
EXTENDS Integers, Sequences, FiniteSets, TLC

VARIABLES self, ss, x, pc, frame, results, obs, call

vars == <<self, ss, x, pc, frame, results, obs, call>>

(***************************************************************************)
(* Bounds of the model.                                                    *)
(***************************************************************************)
MaxSigmas == 4
MaxReqCap == 4
MaxHist == 4
MaxNoiseX == 2
MaxDeisCalls == 3
MaxExp == 12
MaxRoot == 64
OlderHist == 2
MaxNfe == 2
MaxOdeCalls == 3

(***************************************************************************)
(* Exact arithmetic.                                                       *)
(***************************************************************************)
Abs(n) == IF n < 0 THEN -n ELSE n

Sign(n) == IF n < 0 THEN -1 ELSE IF n > 0 THEN 1 ELSE 0

RECURSIVE Gcd(_, _)
Gcd(a, b) == IF b = 0 THEN a ELSE Gcd(b, a % b)

Q(n, d) ==
    IF d = 0 THEN <<Sign(n), 0>>
    ELSE LET g == Gcd(Abs(n), Abs(d))
         IN <<(Sign(d) * n) \div g, Abs(d) \div g>>

Zero == <<0, 1>>
One == <<1, 1>>
Half == <<1, 2>>
NaN == <<0, 0>>
Inf == <<1, 0>>
I(n) == <<n, 1>>

IsNaN(a) == a = NaN
IsInf(a) == a[2] = 0 /\ a[1] # 0
IsFinite(a) == a[2] # 0

QNeg(a) == <<-a[1], a[2]>>

QAdd(a, b) ==
    IF IsNaN(a) \/ IsNaN(b) THEN NaN
    ELSE IF IsInf(a) THEN (IF IsInf(b) /\ b # a THEN NaN ELSE a)
    ELSE IF IsInf(b) THEN b
    ELSE LET g == Gcd(a[2], b[2])
         IN Q(a[1] * (b[2] \div g) + b[1] * (a[2] \div g), (a[2] \div g) * b[2])

QSub(a, b) == QAdd(a, QNeg(b))

\* The factors are cancelled crosswise before they are multiplied.
QMul(a, b) ==
    IF ~IsFinite(a) \/ ~IsFinite(b) THEN <<Sign(a[1]) * Sign(b[1]), 0>>
    ELSE LET g1 == Gcd(Abs(a[1]), b[2])
             g2 == Gcd(Abs(b[1]), a[2])
         IN Q((a[1] \div g1) * (b[1] \div g2), (a[2] \div g2) * (b[2] \div g1))

QDiv(a, b) ==
    IF IsNaN(a) \/ IsNaN(b) THEN NaN
    ELSE IF IsInf(b) THEN (IF IsInf(a) THEN NaN ELSE Zero)
    ELSE IF IsInf(a) THEN (IF b[1] < 0 THEN QNeg(a) ELSE a)
    ELSE IF b[1] = 0 THEN <<Sign(a[1]), 0>>
    ELSE QMul(a, Q(b[2], b[1]))

\* Ordered comparison; every comparison with NaN is false.
QLt(a, b) ==
    /\ ~IsNaN(a) /\ ~IsNaN(b)
    /\ IF IsInf(a) \/ IsInf(b)
       THEN (a = QNeg(Inf) /\ b # a) \/ (b = Inf /\ a # b)
       ELSE QSub(a, b)[1] < 0

QLe(a, b) == ~IsNaN(a) /\ ~IsNaN(b) /\ (a = b \/ QLt(a, b))

QMin(a, b) == IF QLt(b, a) THEN b ELSE a
QMax(a, b) == IF QLt(a, b) THEN b ELSE a

Min(a, b) == IF b < a THEN b ELSE a
Max(a, b) == IF a < b THEN b ELSE a

RECURSIVE Pow(_, _)
Pow(b, k) == IF k = 0 THEN 1 ELSE b * Pow(b, k - 1)

Pow2(k) == IF k >= 0 THEN Q(Pow(2, k), 1) ELSE Q(1, Pow(2, -k))

\* torch.log, to base 2: log(0) = -inf, log of a negative number is NaN.
Log(a) ==
    IF IsNaN(a) \/ a[1] < 0 THEN NaN
    ELSE IF a = Inf THEN Inf
    ELSE IF a = Zero THEN QNeg(Inf)
    ELSE I(CHOOSE k \in -MaxExp..MaxExp : Pow2(k) = a)

\* torch.exp, to base 2 (2^t); the model's log-times are integers.
Exp(t) ==
    IF IsNaN(t) THEN NaN
    ELSE IF t = Inf THEN Inf
    ELSE IF t = QNeg(Inf) THEN Zero
    ELSE Pow2(CHOOSE k \in -MaxExp..MaxExp : I(k) = t)

Expm1(t) == QSub(Exp(t), One)

IsSquare(n) == \E r \in 0..MaxRoot : r * r = n
ISqrt(n) == CHOOSE r \in 0..MaxRoot : r * r = n

\* Tensor.sqrt: exact on the squares of rationals.  The root of any other
\* positive rational is irrational; the model keeps the radicand in its place
\* (sqrt is applied only to noise strengths, and the stand-in is zero, positive
\* and ordered exactly when the root is).
Sqrt(a) ==
    IF IsNaN(a) \/ a[1] < 0 THEN NaN
    ELSE IF a = Inf THEN Inf
    ELSE IF IsSquare(a[1]) /\ IsSquare(a[2]) THEN Q(ISqrt(a[1]), ISqrt(a[2]))
    ELSE a

(***************************************************************************)
(* Optional values.                                                        *)
(***************************************************************************)
None == <<>>
Some(v) == <<v>>
IsNone(o) == Len(o) = 0
Get(o) == o[1]
OrElse(o, v) == IF IsNone(o) THEN v ELSE o[1]

\* The outcome of a call that may raise.
Ret(v) == [raised |-> "", val |-> v]
Raise(e) == [raised |-> e, val |-> NaN]

(***************************************************************************)
(* SamplerResult                                                           *)
(***************************************************************************)
noise_scale(r) == QMul(r.strength, r.s_noise)

\* get_noise(scaled=True): one draw of the noise source, times noise_scale.
get_noise(r, noise) == QMul(noise, noise_scale(r))

noise_x_unguarded(r, xarg, scale, noise) ==
    LET x0 == OrElse(xarg, r.x)
        nx == QAdd(x0, QMul(get_noise(r, noise), scale))
    IN IF noise_scale(r) = Zero
       THEN [r |-> [r EXCEPT !.x = x0], ret |-> x0, draws |-> 0]
       ELSE [r |-> [r EXCEPT !.x = nx], ret |-> nx, draws |-> 1]

\* noise_x(x=None, scale=1.0): the object after the call, the value returned
\* and the number of draws made from the noise source.
noise_x(r, xarg, scale, noise) ==
    LET x0 == OrElse(xarg, r.x)
        nx == QAdd(x0, QMul(get_noise(r, noise), scale))
    IN IF r.sigma_next = Zero \/ noise_scale(r) = Zero
       THEN [r |-> [r EXCEPT !.x = x0], ret |-> x0, draws |-> 0]
       ELSE [r |-> [r EXCEPT !.x = nx], ret |-> nx, draws |-> 1]

(***************************************************************************)
(* SingleStepSampler.get_dyn_value                                         *)
(***************************************************************************)
\* getattr(ss, "main_idx", ss.idx) and getattr(ss, "main_sigmas", ss.sigmas)
main_idx_of(c) == OrElse(c.main_idx, c.idx)
main_sigmas_of(c) == OrElse(c.main_sigmas, c.sigmas)

\* Python's int / int raises ZeroDivisionError on a zero divisor.
get_dyn_value(c, start, end) ==
    IF IsNone(start) \/ IsNone(end) THEN Ret(One)
    ELSE IF Get(start) = Get(end) THEN Ret(Get(start))
    ELSE IF Len(main_sigmas_of(c)) - 1 = 0 THEN Raise("ZeroDivisionError")
    ELSE LET step_pct == Q(main_idx_of(c), Len(main_sigmas_of(c)) - 1)
             dd_diff == QSub(Get(end), Get(start))
         IN Ret(QAdd(Get(start), QMul(dd_diff, step_pct)))

(***************************************************************************)
(* The integrator classes and their constructors                           *)
(***************************************************************************)
\* The registry: selection name -> class (by its name attribute).
STEP_SAMPLERS ==
    [k \in {"default (euler)", "bogacki (2)", "deis", "dpmpp_2m_sde", "dpmpp_2m",
            "dpmpp_2s", "dpmpp_3m_sde", "dpmpp_sde (1)", "euler_cycle",
            "euler_dancing", "euler", "heunpp (1-2)", "ipndm_v", "ipndm",
            "res (1)", "reversible_bogacki (2)", "reversible_heun (1)",
            "reversible_heun_1s", "rk4 (3)", "tde (variable)", "tode (variable)",
            "trapezoidal (1)", "trapezoidal_cycle (1)", "ttm_jvp (1)"} |->
        CASE k = "default (euler)" -> "euler"
          [] k = "bogacki (2)" -> "bogacki"
          [] k = "dpmpp_sde (1)" -> "dpmpp_sde"
          [] k = "heunpp (1-2)" -> "heunpp2"
          [] k = "res (1)" -> "res"
          [] k = "reversible_bogacki (2)" -> "reversible_bogacki"
          [] k = "reversible_heun (1)" -> "reversible_heun"
          [] k = "rk4 (3)" -> "rk4"
          [] k = "tde (variable)" -> "tde"
          [] k = "tode (variable)" -> "tode"
          [] k = "trapezoidal (1)" -> "trapezoidal"
          [] k = "trapezoidal_cycle (1)" -> "trapezoidal_cycle"
          [] k = "ttm_jvp (1)" -> "ttm_jvp"
          [] OTHER -> k]

\* Subclasses of HistorySingleStepSampler (ReversibleSingleStepSampler is one).
HistoryClasses ==
    {"dpmpp_2m", "dpmpp_2m_sde", "dpmpp_3m_sde", "ipndm", "ipndm_v", "deis",
     "reversible_heun_1s", "reversible_heun", "bogacki", "reversible_bogacki"}

ReversibleClasses ==
    {"reversible_heun", "reversible_heun_1s", "bogacki", "reversible_bogacki"}

\* Class attributes default_history_limit, max_history.
default_history_limit(cls) ==
    CASE cls \in {"dpmpp_2m", "dpmpp_2m_sde", "reversible_heun_1s"} -> 1
      [] cls = "dpmpp_3m_sde" -> 2
      [] cls \in {"ipndm", "ipndm_v", "deis"} -> 1
      [] OTHER -> 0

max_history(cls) ==
    CASE cls \in {"dpmpp_2m", "dpmpp_2m_sde", "reversible_heun_1s"} -> 1
      [] cls = "dpmpp_3m_sde" -> 2
      [] cls \in {"ipndm", "ipndm_v", "deis"} -> 3
      [] OTHER -> 0

\* Class attribute self_noise.
\* Every class left at the base class's self_noise = 0.
self_noise_base_only(cls) == 0

self_noise(cls) == IF cls \in {"euler_dancing", "dpmpp_sde"} THEN 1 ELSE 0

\* SingleStepSampler.max_noise_samples
max_noise_samples(inst) == (1 + self_noise(inst.name)) * inst.substeps

\* The class attribute model_calls with rk4 declaring one call less.
model_calls_rk4_short(cls) ==
    CASE cls \in {"reversible_heun", "reversible_heun_1s", "res", "trapezoidal",
                  "trapezoidal_cycle", "dpmpp_2s", "dpmpp_sde", "ttm_jvp"} -> 1
      [] cls \in {"bogacki", "reversible_bogacki", "heunpp2", "tde", "tode",
                  "rk4"} -> 2
      [] OTHER -> 0

\* Class attribute model_calls.
model_calls(cls) ==
    CASE cls \in {"reversible_heun", "reversible_heun_1s", "res", "trapezoidal",
                  "trapezoidal_cycle", "dpmpp_2s", "dpmpp_sde", "ttm_jvp"} -> 1
      [] cls \in {"bogacki", "reversible_bogacki", "heunpp2", "tde", "tode"} -> 2
      [] cls = "rk4" -> 3
      [] OTHER -> 0

\* Class attribute allow_cfgpp.
allow_cfgpp(cls) ==
    cls \in {"euler", "euler_cycle", "reversible_heun", "reversible_heun_1s",
             "trapezoidal", "trapezoidal_cycle", "bogacki", "reversible_bogacki",
             "rk4", "ipndm", "ipndm_v", "deis", "heunpp2", "tde", "tode"}

\* CFGPPStepMixin.init_cfgpp without the allow_cfgpp test.
init_cfgpp_any_class(cls, cfgpp_scale) == cfgpp_scale

\* CFGPPStepMixin.init_cfgpp
init_cfgpp(cls, cfgpp_scale) == IF ~allow_cfgpp(cls) THEN Zero ELSE cfgpp_scale

\* HistorySingleStepSampler.__init__: the cap clamped into [0, max_history].
history_limit_unclamped(cls, history_limit) ==
    Max(0, IF IsNone(history_limit) THEN default_history_limit(cls)
           ELSE Get(history_limit))

history_limit_init(cls, history_limit) ==
    Min(max_history(cls),
        Max(0, IF IsNone(history_limit) THEN default_history_limit(cls)
               ELSE Get(history_limit)))

available_history_no_idx(inst, c) ==
    Max(0, Min(inst.history_limit, Min(max_history(inst.name), Len(c.hist) - 1)))

\* HistorySingleStepSampler.available_history
available_history(inst, c) ==
    Max(0, Min(Min(c.idx, inst.history_limit),
               Min(max_history(inst.name), Len(c.hist) - 1)))

(***************************************************************************)
(* The step context, the model and the ancestral split (collaborators)     *)
(***************************************************************************)
\* Python seq[i]: a negative index counts from the end.
At(seq, i) == IF i >= 0 THEN seq[i + 1] ELSE seq[Len(seq) + i + 1]
Back(seq, k) == seq[Len(seq) - k + 1]    \* Python seq[-k], k >= 1

sigma(c) == At(c.sigmas, c.idx)
sigma_next(c) == At(c.sigmas, c.idx + 1)
sigma_prev(c) == At(c.sigmas, c.idx - 1)
dt(c) == QSub(sigma_next(c), sigma(c))
hcur(c) == Back(c.hist, 1)
hprev(c) == Back(c.hist, 2)
denoised(c) == hcur(c).denoised

\* The model collaborator: a deterministic function of (sample, sigma).  It
\* predicts a noise direction eps from a small range and returns
\* denoised = x - sigma * eps (the guided and the unguided prediction differ).
ModelMix(mx, msigma) == Abs(mx[1]) + 3 * mx[2] + Abs(msigma[1]) + msigma[2]

Model(mx, msigma) ==
    [x               |-> mx,
     sigma           |-> msigma,
     denoised        |-> QSub(mx, QMul(msigma, I((ModelMix(mx, msigma) % 5) - 2))),
     denoised_uncond |-> QSub(mx, QMul(msigma, I((ModelMix(mx, msigma) % 3) - 1))),
     jdenoised       |-> I(ModelMix(mx, msigma) % 2)]

\* ss.model(x, sigma, model_call_idx=n): the call as the integrator made it.
ModelCall(mx, msigma, n) == [x |-> mx, sigma |-> msigma, model_call_idx |-> n]

\* comfy.k_diffusion.sampling.to_d
k_to_d(tx, tsigma, tdenoised) == QDiv(QSub(tx, tdenoised), tsigma)

\* ModelResult.to_d(x=None, sigma=None, cfgpp_scale=0): the derivative, with the
\* configured fraction of (guided - unguided) blended in.
mr_to_d(mr, xo, sigmao, cfgpp_scale) ==
    LET tx == OrElse(xo, mr.x)
        ts == OrElse(sigmao, mr.sigma)
        guide == QMul(cfgpp_scale, QSub(mr.denoised, mr.denoised_uncond))
    IN k_to_d(QSub(tx, guide), ts, mr.denoised)

\* CFGPPStepMixin.to_d
to_d(inst, mr, xo, sigmao) == mr_to_d(mr, xo, sigmao, inst.cfgpp_scale)

\* The ancestral split (sigma_from, sigma_to, eta) -> <<sigma_down, sigma_up>>:
\* sigma_down <= sigma_to <= sigma_from, sigma_up >= 0, and eta = 0 gives
\* <<sigma_to, 0>>.  sigma_down is the real split's value at eta = 1,
\* sigma_to^2 / sigma_from; sigma_up is kept rational.
get_ancestral_step(sigma_from, sigma_to, eta) ==
    IF ~QLt(Zero, eta) \/ ~QLt(Zero, sigma_to) THEN <<sigma_to, Zero>>
    ELSE LET Split(sd) == <<sd, QMin(sigma_to, QMul(eta, QSub(sigma_to, sd)))>>
         IN Split(QMin(sigma_to, QDiv(QMul(sigma_to, sigma_to), sigma_from)))

\* ss.get_ancestral_step(eta, sigma=None, sigma_next=None)
ss_get_ancestral_step(c, eta, sigma_next_o) ==
    get_ancestral_step(sigma(c), OrElse(sigma_next_o, sigma_next(c)), eta)

\* ss.sigma_up: the default strength of a result.
ss_sigma_up(c) == ss_get_ancestral_step(c, One, None)[2]

\* utils.extract_pred(x_before, x_after, sigma_before, sigma_after): the
\* denoised and noise predictions of the line through the two samples.
extract_pred(x_before, x_after, sigma_before, sigma_after) ==
    IF sigma_after = Zero THEN <<x_after, Zero>>
    ELSE LET Noise(denoised_pred) ==
                 <<denoised_pred, QDiv(QSub(x_before, denoised_pred), sigma_before)>>
             Pred(alpha) ==
                 Noise(QDiv(QSub(x_after, QMul(alpha, x_before)), QSub(One, alpha)))
         IN Pred(QDiv(sigma_after, sigma_before))

(***************************************************************************)
(* SingleStepSampler: results and the shared steps                         *)
(***************************************************************************)
\* SamplerResult.__init__: strength, s_noise, sigma and sigma_next fall back
\* to the context's and the sampler's values when not given.
SamplerResult(c, inst, rx, strength, rsigma, rsigma_next, final) ==
    [x          |-> rx,
     strength   |-> IF IsNone(strength) THEN ss_sigma_up(c) ELSE Get(strength),
     s_noise    |-> inst.s_noise,
     sigma      |-> IF IsNone(rsigma) THEN sigma(c) ELSE Get(rsigma),
     sigma_next |-> IF IsNone(rsigma_next) THEN sigma_next(c) ELSE Get(rsigma_next),
     final      |-> final]

\* SingleStepSampler.get_dyn_eta
get_dyn_eta(inst, c) ==
    QMul(inst.eta, get_dyn_value(c, inst.dyn_eta_start, inst.dyn_eta_end).val)

\* ReversibleSingleStepSampler.get_dyn_reta
get_dyn_reta(inst, c) ==
    QMul(inst.reta, get_dyn_value(c, inst.dyn_reta_start, inst.dyn_reta_end).val)

\* What a generator does up to its next yield: the result yielded, where it
\* resumes ("return" after a result that ends the step), its saved locals, the
\* model calls it made, the history entries hist[-k] and the schedule
\* entries sigmas[i] it read, and the instance (its cache may have changed).
Yield(res, nxt, fr, mcalls, hreads, sreads, inst) ==
    [kind |-> "yield", res |-> res, nxt |-> nxt, frame |-> fr,
     mcalls |-> mcalls, hreads |-> hreads, sreads |-> sreads, inst |-> inst]

NoFrame == [order |-> 0]

\* A generator that raises instead of yielding.
Raised(e) == [kind |-> "raise", raised |-> e]

\* SingleStepSampler.result: yield one SamplerResult (final unless told not).
\* With the strength given, SamplerResult.__init__ defaults only sigma and
\* sigma_next, to the context's.
result(c, inst, rx, strength) ==
    [x |-> rx, strength |-> strength, s_noise |-> inst.s_noise,
     sigma |-> sigma(c), sigma_next |-> sigma_next(c), final |-> TRUE]

\* SingleStepSampler.denoised_result
denoised_result(c, inst) == result(c, inst, denoised(c), Zero)

\* SingleStepSampler.euler_step: the result it yields.
euler_result(inst, c, ex) ==
    LET Euler(split) ==
            result(c, inst,
                   QAdd(ex, QMul(to_d(inst, hcur(c), None, None),
                                 QSub(split[1], sigma(c)))),
                   split[2])
    IN Euler(ss_get_ancestral_step(c, get_dyn_eta(inst, c), None))

\* SingleStepSampler.ancestralize_result: the result it yields.
ancestralize_result(inst, c, ax) ==
    LET Split(eta, split, pred) ==
            IF sigma_next(c) = Zero \/ eta = Zero
            THEN result(c, inst, ax, Zero)
            ELSE result(c, inst, QAdd(pred[1], QMul(pred[2], split[1])), split[2])
        Eta(eta) ==
            Split(eta, ss_get_ancestral_step(c, eta, None),
                  extract_pred(hcur(c).x, ax, sigma(c), sigma_next(c)))
    IN Eta(get_dyn_eta(inst, c))

(***************************************************************************)
(* Construction                                                            *)
(***************************************************************************)
HAVE_TDE == TRUE
HAVE_TODE == TRUE

\* tode.interface.METHODS
TODE_METHODS == {"dopri5", "tsit5", "heun"}

\* The keyword arguments of a constructor, each at the default its class
\* declares.
DefaultKwargs ==
    [s_noise |-> One, eta |-> One, dyn_eta_start |-> None, dyn_eta_end |-> None,
     weight |-> One, substeps |-> 1, cfgpp_scale |-> Zero,
     history_limit |-> None,
     reversible_scale |-> One, reta |-> One,
     dyn_reta_start |-> None, dyn_reta_end |-> None,
     cycle_pct |-> Q(1, 4),
     solver_type |-> "midpoint",
     res_simple_phi |-> FALSE, res_c2 |-> Half,
     deta |-> One, ds_noise |-> None, leap |-> 2,
     dyn_deta_start |-> None, dyn_deta_end |-> None, dyn_deta_mode |-> "lerp",
     r |-> Half, alternate_phi_2_calc |-> TRUE, deis_mode |-> "tab",
     max_order |-> 3,
     ode_solver |-> "", ode_max_nfe |-> 100, ode_fixup_hack |-> Q(1, 40),
     ode_split |-> 1, ode_min_sigma |-> Some(Q(292, 10000))]

\* The error a constructor raises, "" when it returns.
init_error(cls, kw) ==
    CASE cls = "euler_dancing"
           /\ kw.dyn_deta_mode \notin {"lerp", "lerp_alt", "deta"} -> "ValueError"
      [] cls = "tde" /\ ~HAVE_TDE -> "RuntimeError"
      [] cls = "tode" /\ ~HAVE_TODE -> "RuntimeError"
      [] cls = "tode"
           /\ (IF kw.ode_solver = "" THEN "dopri5" ELSE kw.ode_solver)
                 \notin TODE_METHODS -> "KeyError"
      [] OTHER -> ""

\* __init__ of the class and of its bases: the instance's attributes.
New(cls, kw) ==
    [name |-> cls,
     s_noise |-> kw.s_noise, eta |-> kw.eta,
     dyn_eta_start |-> kw.dyn_eta_start, dyn_eta_end |-> kw.dyn_eta_end,
     weight |-> kw.weight, substeps |-> kw.substeps,
     cfgpp_scale |-> init_cfgpp(cls, kw.cfgpp_scale),
     history_limit |-> IF cls \in HistoryClasses
                       THEN history_limit_init(cls, kw.history_limit) ELSE 0,
     reversible_scale |-> IF cls = "bogacki" THEN Zero ELSE kw.reversible_scale,
     reta |-> kw.reta,
     dyn_reta_start |-> kw.dyn_reta_start, dyn_reta_end |-> kw.dyn_reta_end,
     cycle_pct |-> kw.cycle_pct,
     solver_type |-> kw.solver_type,
     simple_phi |-> kw.res_simple_phi, c2 |-> kw.res_c2,
     deta |-> kw.deta, ds_noise |-> OrElse(kw.ds_noise, kw.s_noise),
     leap |-> kw.leap,
     dyn_deta_start |-> kw.dyn_deta_start, dyn_deta_end |-> kw.dyn_deta_end,
     dyn_deta_mode |-> kw.dyn_deta_mode,
     r |-> kw.r, alternate_phi_2_calc |-> kw.alternate_phi_2_calc,
     deis_mode |-> kw.deis_mode, deis_coeffs_key |-> None, deis_coeffs |-> None,
     max_order |-> Max(1, Min(model_calls(cls) + 1, kw.max_order)),
     ode_solver_name |-> IF kw.ode_solver # "" THEN kw.ode_solver
                         ELSE IF cls = "tde" THEN "rk4" ELSE "dopri5",
     ode_max_nfe |-> kw.ode_max_nfe, ode_fixup_hack |-> kw.ode_fixup_hack,
     ode_split |-> kw.ode_split,
     ode_min_sigma |-> OrElse(kw.ode_min_sigma, Zero)]

(***************************************************************************)
(* The integrators: what each step does up to its first yield              *)
(*                                                                         *)
(* A step method's local variables keep their names.  Where one local      *)
(* feeds the next, the method is written as stages in the order of its     *)
(* assignments: a stage takes the record v of the locals assigned so far   *)
(* and adds its own, and the last stage yields the result.                 *)
(***************************************************************************)
\* The schedule entries behind ss.sigma and ss.sigma_next, and the history
\* entry behind ss.hcur and ss.denoised.
SCur(c) == {c.idx, c.idx + 1}
HCur == {1}

Final(res, order, mcalls, hreads, sreads, inst) ==
    Yield(res, "return", [order |-> order], mcalls, hreads, sreads, inst)

\* DPMPPStepMixin
t_fn(v) == QNeg(Log(v))
sigma_fn(t) == Exp(QNeg(t))

\* EulerStep.step = SingleStepSampler.euler_step
euler_step(inst, c, sx) ==
    Final(euler_result(inst, c, sx), 1, <<>>, HCur, SCur(c), inst)

\* CycleSingleStepSampler.get_cycle_scales
get_cycle_scales(inst, sn) ==
    LET keep_scale == QMul(sn, QSub(One, inst.cycle_pct))
        add_scale == QMul(Sqrt(QSub(QMul(sn, sn), QMul(keep_scale, keep_scale))),
                          QAdd(Q(95, 100), QMul(Q(1, 4), inst.cycle_pct)))
    IN <<keep_scale, add_scale>>

\* EulerCycleStep.step
euler_cycle_step(inst, c, sx) ==
    IF sigma_next(c) = Zero
    THEN Final(denoised_result(c, inst), 1, <<>>, HCur, SCur(c), inst)
    ELSE LET d == to_d(inst, hcur(c), None, None)
             scales == get_cycle_scales(inst, sigma_next(c))
         IN Final(result(c, inst, QAdd(denoised(c), QMul(d, scales[1])), scales[2]),
                  1, <<>>, HCur, SCur(c), inst)

\* DPMPP2MStep.step
dpmpp_2m_step(inst, c, sx) ==
    LET s == sigma(c)
        sn == sigma_next(c)
        multistep == available_history(inst, c) > 0
        T(t, t_next) == [t |-> t, t_next |-> t_next, h |-> QSub(t_next, t)]
        HistD(r) ==
            QSub(QMul(QAdd(One, QDiv(One, QMul(I(2), r))), denoised(c)),
                 QMul(QDiv(One, QMul(I(2), r)), hprev(c).denoised))
        D(v) == v @@ [denoised_d |->
                        IF multistep
                        THEN HistD(QDiv(QSub(v.t, t_fn(sigma_prev(c))), v.h))
                        ELSE denoised(c)]
        Step(v) ==
            Final(ancestralize_result(
                      inst, c,
                      QSub(QMul(QDiv(sigma_fn(v.t_next), sigma_fn(v.t)), sx),
                           QMul(Expm1(QNeg(v.h)), v.denoised_d))),
                  IF multistep THEN 2 ELSE 1, <<>>,
                  IF multistep THEN {1, 2} ELSE HCur,
                  IF multistep THEN SCur(c) \cup {c.idx - 1} ELSE SCur(c), inst)
    IN IF sn = Zero THEN euler_step(inst, c, sx)
       ELSE Step(D(T(t_fn(s), t_fn(sn))))

\* DPMPP2MSDEStep.step
dpmpp_2m_sde_step(inst, c, sx) ==
    LET H(t, s) == [h |-> QSub(s, t)]
        EtaH(v) == v @@ [eta_h |-> QMul(get_dyn_eta(inst, c), v.h)]
        X1(v) ==
            v @@ [x1 |-> QAdd(QMul(QMul(QDiv(sigma_next(c), sigma(c)),
                                        Exp(QNeg(v.eta_h))), sx),
                              QMul(QNeg(Expm1(QSub(QNeg(v.h), v.eta_h))),
                                   denoised(c))),
                  noise_strength |->
                      QMul(sigma_next(c), Sqrt(QNeg(Expm1(QMul(I(-2), v.eta_h)))))]
        R(v) ==
            v @@ [r |-> QDiv(QSub(QNeg(Log(sigma(c))), QNeg(Log(sigma_prev(c)))),
                             v.h),
                  diff |-> QSub(denoised(c), hprev(c).denoised),
                  e |-> QNeg(Expm1(QSub(QNeg(v.h), v.eta_h)))]
        X2(v) ==
            CASE inst.solver_type = "heun" ->
                   QAdd(v.x1, QMul(QMul(QAdd(QDiv(v.e, QSub(QNeg(v.h), v.eta_h)),
                                             One),
                                        QDiv(One, v.r)), v.diff))
              [] inst.solver_type = "midpoint" ->
                   QAdd(v.x1, QMul(QMul(QMul(Half, v.e), QDiv(One, v.r)), v.diff))
              [] OTHER -> v.x1
        Multistep(v) ==
            Final(result(c, inst, X2(v), v.noise_strength), 2, <<>>, {1, 2},
                  SCur(c) \cup {c.idx - 1}, inst)
        Step(v) ==
            IF sigma_next(c) = Zero \/ available_history(inst, c) = 0
            THEN Final(result(c, inst, v.x1, v.noise_strength), 1, <<>>, HCur,
                       SCur(c), inst)
            ELSE Multistep(R(v))
    IN Step(X1(EtaH(H(QNeg(Log(sigma(c))), QNeg(Log(sigma_next(c)))))))

\* DPMPP3MSDEStep.step
dpmpp_3m_sde_step(inst, c, sx) ==
    LET ah == available_history(inst, c)
        H(t, s) == [h |-> QSub(s, t)]
        HEta(v, eta) ==
            v @@ [h_eta |-> QMul(v.h, QAdd(eta, One)),
                  noise_strength |->
                      QMul(sigma_next(c),
                           Sqrt(QNeg(Expm1(QMul(QMul(I(-2), v.h), eta)))))]
        X1(v) == v @@ [x1 |-> QAdd(QMul(Exp(QNeg(v.h_eta)), sx),
                                   QMul(QNeg(Expm1(QNeg(v.h_eta))), denoised(c)))]
        Hist(v) ==
            v @@ [h_1 |-> QSub(QNeg(Log(sigma(c))), QNeg(Log(sigma_prev(c)))),
                  denoised_1 |-> Back(c.hist, 2).denoised,
                  phi_2 |-> QAdd(QDiv(Expm1(QNeg(v.h_eta)), v.h_eta), One)]
        \* one history item
        OneItem(v) ==
            Final(result(c, inst,
                         QAdd(v.x1, QMul(v.phi_2,
                                         QDiv(QSub(denoised(c), v.denoised_1),
                                              QDiv(v.h_1, v.h)))),
                         v.noise_strength),
                  2, <<>>, {1, 2}, SCur(c) \cup {c.idx - 1}, inst)
        \* two history items
        R(v) ==
            v @@ [r0 |-> QDiv(v.h_1, v.h),
                  r1 |-> QDiv(QSub(QNeg(Log(sigma_prev(c))),
                                   QNeg(Log(At(c.sigmas, c.idx - 2)))), v.h),
                  denoised_2 |-> Back(c.hist, 3).denoised]
        D1(v) ==
            v @@ [d1_0 |-> QDiv(QSub(denoised(c), v.denoised_1), v.r0),
                  d1_1 |-> QDiv(QSub(v.denoised_1, v.denoised_2), v.r1)]
        D2(v) ==
            v @@ [d1 |-> QAdd(v.d1_0, QDiv(QMul(QSub(v.d1_0, v.d1_1), v.r0),
                                           QAdd(v.r0, v.r1))),
                  d2 |-> QDiv(QSub(v.d1_0, v.d1_1), QAdd(v.r0, v.r1)),
                  phi_3 |-> QSub(QDiv(v.phi_2, v.h_eta), Half)]
        TwoItems(v) ==
            Final(result(c, inst,
                         QSub(QAdd(v.x1, QMul(v.phi_2, v.d1)), QMul(v.phi_3, v.d2)),
                         v.noise_strength),
                  3, <<>>, {1, 2, 3}, SCur(c) \cup {c.idx - 1, c.idx - 2}, inst)
        Step(v) ==
            IF ah = 0
            THEN Final(result(c, inst, v.x1, v.noise_strength), 1, <<>>, HCur,
                       SCur(c), inst)
            ELSE IF ah = 1 THEN OneItem(Hist(v))
            ELSE TwoItems(D2(D1(R(Hist(v)))))
    IN IF sigma_next(c) = Zero
       THEN Final(denoised_result(c, inst), 1, <<>>, HCur, SCur(c), inst)
       ELSE Step(X1(HEta(H(QNeg(Log(sigma(c))), QNeg(Log(sigma_next(c)))),
                         get_dyn_eta(inst, c))))

\* ReversibleHeunStep.step
reversible_heun_step(inst, c, sx) ==
    LET Split(split, sigma_down_reversible) ==
            [sigma_down |-> split[1], sigma_up |-> split[2],
             sdt |-> QSub(split[1], sigma(c)),
             dt_reversible |-> QSub(sigma_down_reversible, sigma(c)),
             d |-> to_d(inst, hcur(c), None, None)]
        Pred(v) == v @@ [x_pred |-> QAdd(sx, QMul(v.d, v.sdt))]
        Next1(v) ==
            v @@ [d_next |-> to_d(inst, Model(v.x_pred, v.sigma_down), None, None)]
        Corr(v) ==
            v @@ [correction |->
                      QDiv(QMul(QMul(v.dt_reversible, v.dt_reversible),
                                QSub(v.d_next, v.d)), I(4))]
        Step(v) ==
            Final(result(c, inst,
                         QSub(QAdd(sx, QDiv(QMul(v.sdt, QAdd(v.d, v.d_next)), I(2))),
                              QMul(v.correction, inst.reversible_scale)),
                         v.sigma_up),
                  1, <<ModelCall(v.x_pred, v.sigma_down, 1)>>, HCur, SCur(c), inst)
    IN IF sigma_next(c) = Zero THEN euler_step(inst, c, sx)
       ELSE Step(Corr(Next1(Pred(Split(
                ss_get_ancestral_step(c, get_dyn_eta(inst, c), None),
                ss_get_ancestral_step(c, get_dyn_reta(inst, c), None)[1])))))

\* ReversibleHeun1SStep.step
reversible_heun_1s_step(inst, c, sx) ==
    LET ah == available_history(inst, c)
        s == sigma(c)
        eff_x == IF ah > 0 THEN Back(c.hist, 1).x ELSE sx
        Split(split, sdr) ==
            [sd |-> split[1], su |-> split[2], sdt |-> QSub(split[1], s),
             dtr |-> QSub(sdr, s),
             d_prev |-> to_d(inst,
                             IF ah > 0 THEN Back(c.hist, 2) ELSE Model(eff_x, s),
                             Some(eff_x), Some(s))]
        Pred(v) == v @@ [x_pred |-> QAdd(eff_x, QMul(v.d_prev, v.sdt))]
        Next1(v) == v @@ [d_next |-> to_d(inst, hcur(c), Some(v.x_pred), Some(v.sd))]
        Corr(v) ==
            v @@ [correction |->
                      QDiv(QMul(QMul(v.dtr, v.dtr), QSub(v.d_next, v.d_prev)), I(4))]
        Step(v) ==
            Final(result(c, inst,
                         QSub(QAdd(sx, QDiv(QMul(v.sdt, QAdd(v.d_prev, v.d_next)),
                                            I(2))),
                              QMul(v.correction, inst.reversible_scale)),
                         v.su),
                  ah + 1, IF ah > 0 THEN <<>> ELSE <<ModelCall(eff_x, s, 1)>>,
                  IF ah > 0 THEN {1, 2} ELSE HCur, SCur(c), inst)
    IN IF sigma_next(c) = Zero THEN euler_step(inst, c, sx)
       ELSE Step(Corr(Next1(Pred(Split(
                ss_get_ancestral_step(c, get_dyn_eta(inst, c), None),
                ss_get_ancestral_step(c, get_dyn_reta(inst, c), None)[1])))))

\* res_support._de_second_order(h, c2, simple_phi_calc): the weights a2_1, b1,
\* b2 from phi_1(z) = expm1(z) / z and phi_2(z) = (phi_1(z) - 1) / z.
phi_1(z) == QDiv(Expm1(z), z)
phi_2(z) == QDiv(QSub(phi_1(z), One), z)

de_second_order(h, c2, simple_phi_calc) ==
    LET B1(a2_1, b2) == <<a2_1, QSub(phi_1(QNeg(h)), b2), b2>>
    IN B1(QMul(c2, phi_1(QNeg(QMul(c2, h)))), QDiv(phi_2(QNeg(h)), c2))

\* RESStep.step
res_step(inst, c, sx) ==
    LET Split(eta, split) ==
            [sigma_up |-> split[2],
             lam_next |-> IF eta # Zero THEN QNeg(Log(split[1]))
                          ELSE QNeg(Log(sigma_next(c))),
             lam |-> QNeg(Log(sigma(c)))]
        Eta(eta) == Split(eta, ss_get_ancestral_step(c, eta, None))
        H(v) == v @@ [h |-> QSub(v.lam_next, v.lam)]
        W(v) == v @@ [w |-> de_second_order(v.h, inst.c2, inst.simple_phi),
                      c2_h |-> QMul(Half, v.h)]
        X2(v) ==
            v @@ [x_2 |-> QAdd(QMul(Exp(QNeg(v.c2_h)), sx),
                               QMul(QMul(v.w[1], v.h), denoised(c))),
                  sigma_2 |-> Exp(QNeg(QAdd(v.lam, v.c2_h)))]
        D2(v) == v @@ [denoised2 |-> Model(v.x_2, v.sigma_2).denoised]
        Step(v) ==
            Final(result(c, inst,
                         QAdd(QMul(Exp(QNeg(v.h)), sx),
                              QMul(v.h, QAdd(QMul(v.w[2], denoised(c)),
                                             QMul(v.w[3], v.denoised2)))),
                         v.sigma_up),
                  1, <<ModelCall(v.x_2, v.sigma_2, 1)>>, HCur, SCur(c), inst)
    IN IF sigma_next(c) = Zero THEN euler_step(inst, c, sx)
       ELSE Step(D2(X2(W(H(Eta(get_dyn_eta(inst, c)))))))

\* TrapezoidalStep.step
trapezoidal_step(inst, c, sx) ==
    LET Split(split) ==
            [sigma_up |-> split[2], dt_2 |-> QSub(split[1], sigma(c)),
             d_i |-> to_d(inst, hcur(c), None, None)]
        Pred(v) == v @@ [x_pred |-> QAdd(sx, QMul(v.d_i, dt(c)))]
        Next1(v) ==
            v @@ [d_next |-> to_d(inst, Model(v.x_pred, sigma_next(c)), None, None)]
        Step(v) ==
            Final(result(c, inst,
                         QAdd(sx, QDiv(QMul(v.dt_2, QAdd(v.d_i, v.d_next)), I(2))),
                         v.sigma_up),
                  1, <<ModelCall(v.x_pred, sigma_next(c), 1)>>, HCur, SCur(c), inst)
    IN IF sigma_next(c) = Zero THEN euler_step(inst, c, sx)
       ELSE Step(Next1(Pred(Split(
                ss_get_ancestral_step(c, get_dyn_eta(inst, c), None)))))

\* TrapezoidalCycleStep.step
trapezoidal_cycle_step(inst, c, sx) ==
    LET Pred(d_i) == [d_i |-> d_i, x_pred |-> QAdd(sx, QMul(d_i, dt(c)))]
        Next1(v) ==
            v @@ [d_next |-> to_d(inst, Model(v.x_pred, sigma_next(c)), None, None)]
        Noise(v) == v @@ [noise_pred |-> QMul(QAdd(v.d_i, v.d_next), Half)]
        Step(v, scales) ==
            Final(result(c, inst,
                         QAdd(QSub(sx, QMul(v.noise_pred, sigma(c))),
                              QMul(v.noise_pred, scales[1])),
                         scales[2]),
                  1, <<ModelCall(v.x_pred, sigma_next(c), 1)>>, HCur, SCur(c), inst)
    IN IF sigma_next(c) = Zero
       THEN Final(denoised_result(c, inst), 1, <<>>, HCur, SCur(c), inst)
       ELSE Step(Noise(Next1(Pred(to_d(inst, hcur(c), None, None)))),
                 get_cycle_scales(inst, sigma_next(c)))

\* BogackiStep.step (ReversibleBogackiStep: reversible = True)
bogacki_step(inst, c, sx) ==
    LET s == sigma(c)
        reta == IF inst.name = "reversible_bogacki" THEN get_dyn_reta(inst, c)
                ELSE Zero
        Split(split, sdr) ==
            [su |-> split[2], sdt |-> QSub(split[1], s), dtr |-> QSub(sdr, s)]
        K1(v) == v @@ [k1 |-> QMul(to_d(inst, hcur(c), None, None), v.sdt),
                       s_k2 |-> QAdd(s, QDiv(v.sdt, I(2))),
                       s_k3 |-> QAdd(s, QDiv(QMul(I(3), v.sdt), I(4)))]
        X2(v) == v @@ [x_k2 |-> QAdd(sx, QDiv(v.k1, I(2)))]
        K2(v) == v @@ [k2 |-> QMul(to_d(inst, Model(v.x_k2, v.s_k2), None, None),
                                   v.sdt)]
        X3(v) == v @@ [x_k3 |-> QAdd(QAdd(sx, QDiv(QMul(I(3), v.k1), I(4))),
                                     QDiv(v.k2, I(4)))]
        K3(v) == v @@ [k3 |-> QMul(to_d(inst, Model(v.x_k3, v.s_k3), None, None),
                                   v.sdt)]
        Corr(v) ==
            v @@ [correction |->
                      QDiv(QMul(QMul(v.dtr, v.dtr), QSub(v.k3, v.k2)), I(6))]
        Step(v) ==
            Final(result(c, inst,
                         QSub(QAdd(QAdd(QAdd(sx, QDiv(QMul(I(2), v.k1), I(9))),
                                        QDiv(v.k2, I(3))),
                                   QDiv(QMul(I(4), v.k3), I(9))),
                              QMul(v.correction, inst.reversible_scale)),
                         v.su),
                  1, <<ModelCall(v.x_k2, v.s_k2, 1), ModelCall(v.x_k3, v.s_k3, 2)>>,
                  HCur, SCur(c), inst)
    IN IF sigma_next(c) = Zero THEN euler_step(inst, c, sx)
       ELSE Step(Corr(K3(X3(K2(X2(K1(Split(
                ss_get_ancestral_step(c, get_dyn_eta(inst, c), None),
                ss_get_ancestral_step(c, reta, None)[1]))))))))

\* RK4Step.step
rk4_step(inst, c, sx) ==
    LET s == sigma(c)
        K1(v) == v @@ [k1 |-> QMul(k_to_d(sx, s, denoised(c)), v.sdt),
                       s_mid |-> QAdd(s, QDiv(v.sdt, I(2))),
                       s_end |-> QAdd(s, v.sdt)]
        X2(v) == v @@ [x_k2 |-> QAdd(sx, QDiv(v.k1, I(2)))]
        K2(v) == v @@ [k2 |-> QMul(to_d(inst, Model(v.x_k2, v.s_mid), None, None),
                                   v.sdt)]
        X3(v) == v @@ [x_k3 |-> QAdd(sx, QDiv(v.k2, I(2)))]
        K3(v) == v @@ [k3 |-> QMul(to_d(inst, Model(v.x_k3, v.s_mid), None, None),
                                   v.sdt)]
        X4(v) == v @@ [x_k4 |-> QAdd(sx, v.k3)]
        K4(v) == v @@ [k4 |-> QMul(to_d(inst, Model(v.x_k4, v.s_end), None, None),
                                   v.sdt)]
        Step(v) ==
            Final(result(c, inst,
                         QAdd(sx, QDiv(QAdd(QAdd(QAdd(v.k1, QMul(I(2), v.k2)),
                                                 QMul(I(2), v.k3)), v.k4), I(6))),
                         v.sigma_up),
                  1, <<ModelCall(v.x_k2, v.s_mid, 1), ModelCall(v.x_k3, v.s_mid, 2),
                       ModelCall(v.x_k4, v.s_end, 3)>>, HCur, SCur(c), inst)
        Split(split) == [sdt |-> QSub(split[1], s), sigma_up |-> split[2]]
    IN IF sigma_next(c) = Zero THEN euler_step(inst, c, sx)
       ELSE Step(K4(X4(K3(X3(K2(X2(K1(Split(
                ss_get_ancestral_step(c, get_dyn_eta(inst, c), None))))))))))

\* DPMPP2SStep.step
dpmpp_2s_step(inst, c, sx) ==
    LET r == Half
        T(sigma_up, t, t_next) ==
            [sigma_up |-> sigma_up, t |-> t, t_next |-> t_next,
             h |-> QSub(t_next, t)]
        Split(split) == T(split[2], t_fn(sigma(c)), t_fn(split[1]))
        S(v) == v @@ [s |-> QAdd(v.t, QMul(r, v.h))]
        X2(v) ==
            v @@ [x_2 |-> QSub(QMul(QDiv(sigma_fn(v.s), sigma_fn(v.t)), sx),
                               QMul(Expm1(QMul(QNeg(v.h), r)), denoised(c)))]
        D2(v) == v @@ [denoised_2 |-> Model(v.x_2, sigma_fn(v.s)).denoised]
        Step(v) ==
            Final(result(c, inst,
                         QSub(QMul(QDiv(sigma_fn(v.t_next), sigma_fn(v.t)), sx),
                              QMul(Expm1(QNeg(v.h)), v.denoised_2)),
                         v.sigma_up),
                  1, <<ModelCall(v.x_2, sigma_fn(v.s), 1)>>, HCur, SCur(c), inst)
    IN IF sigma_next(c) = Zero THEN euler_step(inst, c, sx)
       ELSE Step(D2(X2(S(Split(
                ss_get_ancestral_step(c, get_dyn_eta(inst, c), None))))))

\* TTMJVPStep.step
ttm_jvp_step(inst, c, sx) ==
    LET s == sigma(c)
        sn == sigma_next(c)
        H(eta, h) == [eta |-> eta, h |-> h, h_eta |-> QMul(h, QAdd(eta, One))]
        Phi(v) ==
            v @@ [jphi_1 |-> QNeg(Expm1(QNeg(v.h_eta))),
                  jphi_2 |-> IF inst.alternate_phi_2_calc
                             THEN QAdd(Expm1(QNeg(v.h)), v.h)
                             ELSE QAdd(Expm1(QNeg(v.h_eta)), v.h_eta)]
        Step(v) ==
            Final(result(c, inst,
                         QAdd(QAdd(QMul(Exp(QNeg(v.h_eta)), sx),
                                   QMul(v.jphi_1, denoised(c))),
                              QMul(v.jphi_2, Model(sx, s).jdenoised)),
                         IF v.eta # Zero
                         THEN QMul(sn, Sqrt(QNeg(Expm1(QMul(QMul(I(-2), v.h),
                                                            v.eta)))))
                         ELSE Zero),
                  1, <<ModelCall(sx, s, 1)>>, HCur, SCur(c), inst)
    IN IF sn = Zero
       THEN Final(denoised_result(c, inst), 1, <<>>, HCur, SCur(c), inst)
       ELSE Step(Phi(H(get_dyn_eta(inst, c), QSub(QNeg(Log(sn)), QNeg(Log(s))))))

\* The table without its first row: every order takes the next one's weights.
IPNDM_MULTIPLIERS_SHIFTED ==
    << <<(<<3, -1>>), 2>>,
       <<(<<23, -16, 5>>), 12>>,
       <<(<<55, -59, 37, -9>>), 24>>,
       <<(<<55, -59, 37, -9>>), 24>> >>

\* IPNDMStep.IPNDM_MULTIPLIERS
IPNDM_MULTIPLIERS ==
    << <<(<<1>>), 1>>,
       <<(<<3, -1>>), 2>>,
       <<(<<23, -16, 5>>), 12>>,
       <<(<<55, -59, 37, -9>>), 24>> >>

\* The hd tuple indexed from its front (hd[hidx - 1], the oldest entry first)
\* instead of from its back.
hd_back_from_front(inst, c, j) ==
    to_d(inst, Back(c.hist, available_history(inst, c) + 2 - j), None, None)

\* hd = tuple(self.to_d(ss.hist[-hidx]) for hidx in range(order, 1, -1)):
\* hd[-j] is the derivative of hist[-(j + 1)].
hd_back(inst, c, j) == to_d(inst, Back(c.hist, j + 1), None, None)

HReads(order) == 1..order
SReads(c, order) == (c.idx - (order - 1))..(c.idx + 1)

RECURSIVE QSum(_, _, _)
QSum(F(_), lo, hi) == IF lo > hi THEN Zero ELSE QAdd(F(lo), QSum(F, lo + 1, hi))

\* IPNDMStep.step
ipndm_step(inst, c, sx) ==
    LET order == available_history(inst, c) + 1
        row == IPNDM_MULTIPLIERS[order]
        dm == row[1][1]
        div == row[2]
        Term(j) == QMul(I(row[1][j + 1]), hd_back(inst, c, j))
        noise == QDiv(QAdd(QMul(I(dm), to_d(inst, hcur(c), None, None)),
                           QSum(Term, 1, order - 1)), I(div))
    IN IF sigma_next(c) = Zero THEN euler_step(inst, c, sx)
       ELSE Final(ancestralize_result(inst, c, QAdd(sx, QMul(dt(c), noise))),
                  order, <<>>, HReads(order), SCur(c), inst)

\* hns[-k] of IPNDMVStep.step: sigmas[idx - k + 1] - sigmas[idx - k].
hns_back(c, k) == QSub(At(c.sigmas, c.idx - k + 1), At(c.sigmas, c.idx - k))

\* IPNDMVStep.step
ipndm_v_step(inst, c, sx) ==
    LET order == available_history(inst, c) + 1
        Base(vdt, d, h1) ==
            [vdt |-> vdt, d |-> d, h1 |-> h1, hd1 |-> hd_back(inst, c, 1),
             base1 |-> QDiv(QAdd(I(2), QDiv(vdt, h1)), I(2)),
             base2 |-> QNeg(QDiv(QDiv(vdt, h1), I(2)))]
        Noise2(v) == QAdd(QMul(v.base1, v.d), QMul(v.base2, v.hd1))
        Temp1(v, h2) ==
            v @@ [h2 |-> h2, hd2 |-> hd_back(inst, c, 2),
                  temp1 |->
                      QDiv(QSub(One,
                                QDiv(QMul(QDiv(v.vdt, QMul(I(3), QAdd(v.vdt, v.h1))),
                                          QMul(v.vdt, QAdd(v.vdt, v.h1))),
                                     QMul(v.h1, QAdd(v.h1, h2)))), I(2))]
        Noise3(v) ==
            LET coeff1 == QAdd(v.base1, v.temp1)
                coeff2 == QSub(v.base2, QMul(QAdd(One, QDiv(v.h1, v.h2)), v.temp1))
                coeff3 == QDiv(QMul(v.temp1, v.h1), v.h2)
            IN QAdd(QAdd(QMul(coeff1, v.d), QMul(coeff2, v.hd1)),
                    QMul(coeff3, v.hd2))
        Temp2(v, h3) ==
            v @@ [h3 |-> h3, hd3 |-> hd_back(inst, c, 3),
                  ratio |-> QDiv(QMul(v.h1, QAdd(v.h1, v.h2)),
                                 QMul(v.h2, QAdd(v.h2, h3))),
                  temp2 |->
                      QDiv(QMul(QAdd(QDiv(QSub(One,
                                               QDiv(v.vdt,
                                                    QMul(I(3), QAdd(v.vdt, v.h1)))),
                                          I(2)),
                                     QDiv(QMul(QSub(One,
                                                    QDiv(v.vdt,
                                                         QMul(I(2),
                                                              QAdd(v.vdt, v.h1)))),
                                               v.vdt),
                                          QMul(I(6), QAdd(QAdd(v.vdt, v.h1), v.h2)))),
                                QMul(QMul(v.vdt, QAdd(v.vdt, v.h1)),
                                     QAdd(QAdd(v.vdt, v.h1), v.h2))),
                           QMul(QMul(v.h1, QAdd(v.h1, v.h2)),
                                QAdd(QAdd(v.h1, v.h2), h3)))]
        Noise4(v) ==
            LET coeff1 == QAdd(QAdd(v.base1, v.temp1), v.temp2)
                coeff2 == QSub(QSub(v.base2,
                                    QMul(QAdd(One, QDiv(v.h1, v.h2)), v.temp1)),
                               QMul(QAdd(QAdd(One, QDiv(v.h1, v.h2)), v.ratio),
                                    v.temp2))
                coeff3 == QAdd(QDiv(QMul(v.temp1, v.h1), v.h2),
                               QMul(QAdd(QDiv(v.h1, v.h2),
                                         QMul(v.ratio, QAdd(One, QDiv(v.h2, v.h3)))),
                                    v.temp2))
                coeff4 == QDiv(QMul(QMul(QNeg(v.temp2), v.ratio), v.h1), v.h2)
            IN QAdd(QAdd(QAdd(QMul(coeff1, v.d), QMul(coeff2, v.hd1)),
                         QMul(coeff3, v.hd2)), QMul(coeff4, v.hd3))
        Noise(vdt, d) ==
            CASE order = 1 -> d
              [] order = 2 -> Noise2(Base(vdt, d, hns_back(c, 1)))
              [] order = 3 -> Noise3(Temp1(Base(vdt, d, hns_back(c, 1)),
                                           hns_back(c, 2)))
              [] OTHER -> Noise4(Temp2(Temp1(Base(vdt, d, hns_back(c, 1)),
                                             hns_back(c, 2)),
                                       hns_back(c, 3)))
    IN IF sigma_next(c) = Zero THEN euler_step(inst, c, sx)
       ELSE Final(ancestralize_result(
                      inst, c,
                      QAdd(sx, QMul(dt(c),
                                    Noise(dt(c), to_d(inst, hcur(c), None, None))))),
                  order, <<>>, HReads(order), SReads(c, order), inst)

\* comfy.k_diffusion.deis.get_deis_coeff_list(t_steps, max_order): for each
\* transition i the weights of the min(i + 1, max_order) newest derivatives,
\* the integrals over [t_i, t_i+1] of the Lagrange basis polynomials on the
\* nodes t_i, t_i-1, ... (none at order 1).  Simpson's rule is exact for them.
deis_poly(sigmas, i, order, j, tau) ==
    LET Factor(k) == IF k = j THEN One
                     ELSE QDiv(QSub(tau, At(sigmas, i - k)),
                               QSub(At(sigmas, i - j), At(sigmas, i - k)))
        RECURSIVE Prod(_)
        Prod(k) == IF k >= order THEN One ELSE QMul(Factor(k), Prod(k + 1))
    IN Prod(0)

deis_coeff(sigmas, i, order, j) ==
    LET a == At(sigmas, i)
        b == At(sigmas, i + 1)
        m == QDiv(QAdd(a, b), I(2))
    IN QMul(QDiv(QSub(b, a), I(6)),
            QAdd(QAdd(deis_poly(sigmas, i, order, j, a),
                      QMul(I(4), deis_poly(sigmas, i, order, j, m))),
                 deis_poly(sigmas, i, order, j, b)))

get_deis_coeff_list(sigmas, max_order) ==
    [i1 \in 1..(Len(sigmas) - 1) |->
        LET order == Min(i1, max_order)
        IN IF order = 1 THEN <<>>
           ELSE [j1 \in 1..order |-> deis_coeff(sigmas, i1 - 1, order, j1 - 1)]]

\* The cache key of DEISStep.get_deis_coeffs.
deis_key(inst, c) ==
    <<I(inst.history_limit), I(Len(c.sigmas)), At(c.sigmas, 0),
      At(c.sigmas, Len(c.sigmas) - 1)>>

\* A cache that is filled once and never invalidated.
get_deis_coeffs_filled_once(inst, c) ==
    [inst |-> [inst EXCEPT !.deis_coeffs_key = Some(deis_key(inst, c)),
                           !.deis_coeffs = IF IsNone(inst.deis_coeffs)
                                           THEN Some(get_deis_coeff_list(
                                                   c.sigmas, inst.history_limit + 1))
                                           ELSE inst.deis_coeffs],
     ret |-> IF IsNone(inst.deis_coeffs)
             THEN get_deis_coeff_list(c.sigmas, inst.history_limit + 1)
             ELSE Get(inst.deis_coeffs),
     recomputed |-> IF IsNone(inst.deis_coeffs) THEN 1 ELSE 0]

\* A cache that keeps a table of one order less than the one it returns.
get_deis_coeffs_keeps_lower_order(inst, c) ==
    LET key == deis_key(inst, c)
        table == get_deis_coeff_list(c.sigmas, inst.history_limit + 1)
    IN IF inst.deis_coeffs_key = Some(key)
       THEN [inst |-> inst, ret |-> Get(inst.deis_coeffs), recomputed |-> 0]
       ELSE [inst |-> [inst EXCEPT !.deis_coeffs_key = Some(key),
                                   !.deis_coeffs = Some(get_deis_coeff_list(
                                                     c.sigmas, inst.history_limit))],
             ret |-> table, recomputed |-> 1]

\* A refill of the cache that also rewrites deis_mode.
get_deis_coeffs_touches_mode(inst, c) ==
    LET key == deis_key(inst, c)
        table == get_deis_coeff_list(c.sigmas, inst.history_limit + 1)
    IN IF inst.deis_coeffs_key = Some(key)
       THEN [inst |-> inst, ret |-> Get(inst.deis_coeffs), recomputed |-> 0]
       ELSE [inst |-> [inst EXCEPT !.deis_coeffs_key = Some(key),
                                   !.deis_coeffs = Some(table),
                                   !.deis_mode = "refilled"],
             ret |-> table, recomputed |-> 1]

\* DEISStep.get_deis_coeffs: the instance after the call, the table returned
\* and whether get_deis_coeff_list was called.
get_deis_coeffs(inst, c) ==
    LET key == deis_key(inst, c)
        table == get_deis_coeff_list(c.sigmas, inst.history_limit + 1)
    IN IF inst.deis_coeffs_key = Some(key)
       THEN [inst |-> inst, ret |-> Get(inst.deis_coeffs), recomputed |-> 0]
       ELSE [inst |-> [inst EXCEPT !.deis_coeffs_key = Some(key),
                                   !.deis_coeffs = Some(table)],
             ret |-> table, recomputed |-> 1]

\* DEISStep.step
deis_step(inst, c, sx) ==
    LET order == available_history(inst, c) + 1
        Step(d, got, coeffs) ==
            LET Term(i) == QMul(At(coeffs, i), hd_back(inst, c, i))
            IN IF order >= 2 /\ Len(coeffs) < order THEN Raised("IndexError")
               ELSE Final(ancestralize_result(
                              inst, c,
                              QAdd(sx, IF order < 2 THEN QMul(dt(c), d)
                                       ELSE QAdd(QMul(At(coeffs, 0), d),
                                                 QSum(Term, 1, order - 1)))),
                          order, <<>>, HReads(order), SCur(c),
                          IF order < 2 THEN inst ELSE got.inst)
        Got(d, got) == Step(d, got, At(got.ret, c.idx))
    IN IF sigma_next(c) = Zero THEN euler_step(inst, c, sx)
       ELSE Got(to_d(inst, hcur(c), None, None), get_deis_coeffs(inst, c))

\* HeunPP2Step.step with the third derivative taken from the second model
\* result instead of a model call of its own.
heunpp2_step_one_call(inst, c, sx) ==
    LET steps_remain == Max(0, Len(c.sigmas) - (c.idx + 2))
        order == Min(inst.max_order, steps_remain + 1)
        sn == sigma_next(c)
        snn == At(c.sigmas, c.idx + 2)
        D(d, w) == [d |-> d, w |-> w, w2 |-> QDiv(sn, w),
                    x_2 |-> QAdd(sx, QMul(d, dt(c)))]
        D2(v) == v @@ [d_2 |-> to_d(inst, Model(v.x_2, sn), None, None)]
        Dt2(v) == v @@ [dt_2 |-> QSub(snn, sn), w3 |-> QDiv(snn, v.w)]
        X3(v) == v @@ [x_3 |-> QAdd(v.x_2, QMul(v.d_2, v.dt_2))]
        D3(v) == v @@ [d_3 |-> v.d_2]
        TwoCalls(v) ==
            Final(ancestralize_result(
                      inst, c,
                      QAdd(sx, QMul(QAdd(QMul(v.d, QSub(One, v.w2)),
                                         QMul(v.d_2, v.w2)), dt(c)))),
                  order, <<ModelCall(v.x_2, sn, 1)>>, HCur, SCur(c), inst)
        ThreeCalls(v) ==
            Final(ancestralize_result(
                      inst, c,
                      QAdd(sx, QMul(QAdd(QAdd(QMul(QSub(QSub(One, v.w2), v.w3), v.d),
                                              QMul(v.w2, v.d_2)),
                                         QMul(v.w3, v.d_3)), dt(c)))),
                  order, <<ModelCall(v.x_2, sn, 1)>>,
                  HCur, SCur(c) \cup {c.idx + 2}, inst)
        Step(v) == IF order = 2 THEN TwoCalls(v) ELSE ThreeCalls(D3(X3(Dt2(v))))
    IN IF order = 1 \/ sn = Zero THEN euler_step(inst, c, sx)
       ELSE Step(D2(D(to_d(inst, hcur(c), None, None), QMul(I(order), sigma(c)))))

\* HeunPP2Step.step
heunpp2_step(inst, c, sx) ==
    LET steps_remain == Max(0, Len(c.sigmas) - (c.idx + 2))
        order == Min(inst.max_order, steps_remain + 1)
        sn == sigma_next(c)
        snn == At(c.sigmas, c.idx + 2)
        D(d, w) == [d |-> d, w |-> w, w2 |-> QDiv(sn, w),
                    x_2 |-> QAdd(sx, QMul(d, dt(c)))]
        D2(v) == v @@ [d_2 |-> to_d(inst, Model(v.x_2, sn), None, None)]
        Dt2(v) == v @@ [dt_2 |-> QSub(snn, sn), w3 |-> QDiv(snn, v.w)]
        X3(v) == v @@ [x_3 |-> QAdd(v.x_2, QMul(v.d_2, v.dt_2))]
        D3(v) == v @@ [d_3 |-> to_d(inst, Model(v.x_3, snn), None, None)]
        TwoCalls(v) ==
            Final(ancestralize_result(
                      inst, c,
                      QAdd(sx, QMul(QAdd(QMul(v.d, QSub(One, v.w2)),
                                         QMul(v.d_2, v.w2)), dt(c)))),
                  order, <<ModelCall(v.x_2, sn, 1)>>, HCur, SCur(c), inst)
        ThreeCalls(v) ==
            Final(ancestralize_result(
                      inst, c,
                      QAdd(sx, QMul(QAdd(QAdd(QMul(QSub(QSub(One, v.w2), v.w3), v.d),
                                              QMul(v.w2, v.d_2)),
                                         QMul(v.w3, v.d_3)), dt(c)))),
                  order, <<ModelCall(v.x_2, sn, 1), ModelCall(v.x_3, snn, 2)>>,
                  HCur, SCur(c) \cup {c.idx + 2}, inst)
        Step(v) == IF order = 2 THEN TwoCalls(v) ELSE ThreeCalls(D3(X3(Dt2(v))))
    IN IF order = 1 \/ sn = Zero THEN euler_step(inst, c, sx)
       ELSE Step(D2(D(to_d(inst, hcur(c), None, None), QMul(I(order), sigma(c)))))

(***************************************************************************)
(* Integrators that suspend: a non-terminal result, then the rest          *)
(***************************************************************************)
\* An intermediate result that claims to end the step.
NonFinalMarkedFinal(c, inst, rx, strength, rsigma, rsigma_next) ==
    SamplerResult(c, inst, rx, Some(strength), Some(rsigma), Some(rsigma_next),
                  TRUE)

NonFinal(c, inst, rx, strength, rsigma, rsigma_next) ==
    SamplerResult(c, inst, rx, Some(strength), Some(rsigma), Some(rsigma_next),
                  FALSE)

\* utils.find_first_unsorted(tensor): the index of the first entry greater
\* than its predecessor, None when the tensor is non-increasing.
find_first_unsorted(seq) ==
    LET bad == {i \in 1..(Len(seq) - 1) : QLt(At(seq, i - 1), At(seq, i))}
    IN IF bad = {} THEN None ELSE Some(CHOOSE i \in bad : \A j \in bad : i <= j)

\* The leap taken over the whole rest of the schedule, not cut where it stops
\* decreasing.
dancing_leap_past_run(inst, c) ==
    LET Sorted(tail, cut) == IF IsNone(cut) THEN tail ELSE SubSeq(tail, 1, Get(cut))
        Zeros(leap_sigmas) ==
            {i \in 0..(Len(leap_sigmas) - 1) : QLe(At(leap_sigmas, i), Zero)}
        MaxLeap(leap_sigmas, zeros) ==
            (IF zeros = {} THEN Len(leap_sigmas)
             ELSE CHOOSE i \in zeros : \A j \in zeros : i <= j) - 1
        Leap(leap_sigmas, max_leap, is_danceable, curr_leap) ==
            <<curr_leap,
              IF is_danceable THEN At(leap_sigmas, curr_leap) ELSE sigma_next(c),
              is_danceable>>
        Leaps(leap_sigmas, max_leap) ==
            Leap(leap_sigmas, max_leap, max_leap > 1 /\ sigma_next(c) # Zero,
                 Max(1, Min(inst.leap, max_leap)))
        Upto(leap_sigmas) ==
            Leaps(leap_sigmas, MaxLeap(leap_sigmas, Zeros(leap_sigmas)))
        From(tail) == Upto(Sorted(tail, None))
    IN From(SubSeq(c.sigmas, c.idx + 1, Len(c.sigmas)))

\* The leap of EulerDancingStep.step: <<curr_leap, sigma_leap, is_danceable>>.
dancing_leap(inst, c) ==
    LET Sorted(tail, cut) == IF IsNone(cut) THEN tail ELSE SubSeq(tail, 1, Get(cut))
        Zeros(leap_sigmas) ==
            {i \in 0..(Len(leap_sigmas) - 1) : QLe(At(leap_sigmas, i), Zero)}
        MaxLeap(leap_sigmas, zeros) ==
            (IF zeros = {} THEN Len(leap_sigmas)
             ELSE CHOOSE i \in zeros : \A j \in zeros : i <= j) - 1
        Leap(leap_sigmas, max_leap, is_danceable, curr_leap) ==
            <<curr_leap,
              IF is_danceable THEN At(leap_sigmas, curr_leap) ELSE sigma_next(c),
              is_danceable>>
        Leaps(leap_sigmas, max_leap) ==
            Leap(leap_sigmas, max_leap, max_leap > 1 /\ sigma_next(c) # Zero,
                 Max(1, Min(inst.leap, max_leap)))
        Upto(leap_sigmas) ==
            Leaps(leap_sigmas, MaxLeap(leap_sigmas, Zeros(leap_sigmas)))
        From(tail) == Upto(Sorted(tail, find_first_unsorted(tail)))
    IN From(SubSeq(c.sigmas, c.idx + 1, Len(c.sigmas)))

\* EulerDancingStep.step after the leap: the correction back to sigma_next.
euler_dancing_resume(inst, c, fr, sent) ==
    LET sigma_leap == fr.sigma_leap
        sigma_up2 == QAdd(get_ancestral_step(sigma_next(c), sigma_leap, inst.deta)[2],
                          QMul(sigma_next(c), Half))
        sigma_down2 == get_ancestral_step(sigma_next(c), sigma_leap, inst.deta)[1]
        d_2 == k_to_d(sent, sigma_leap, denoised(c))
        dt_2 == QSub(sigma_down2, sigma_leap)
    IN Final(result(c, inst, QAdd(sent, QMul(d_2, dt_2)), sigma_up2), 1, <<>>,
             HCur, {c.idx + 1}, inst)

\* EulerDancingStep.step
euler_dancing_step(inst, c, sx) ==
    LET tail == c.idx..(Len(c.sigmas) - 1)
        Leapt(curr_leap, sigma_leap, sigma_up, x1, fr) ==
            IF curr_leap = 1
            THEN Yield(result(c, inst, x1, sigma_up), "return", fr, <<>>, HCur,
                       tail, inst)
            ELSE IF QMul(inst.ds_noise, sigma_up) # Zero
            THEN Yield(NonFinal(c, inst, x1, sigma_up, sigma(c), sigma_leap),
                       "dance", fr, <<>>, HCur, tail, inst)
            ELSE [euler_dancing_resume(inst, c, fr, x1)
                    EXCEPT !.frame = fr, !.sreads = tail]
        Split(curr_leap, sigma_leap, split) ==
            Leapt(curr_leap, sigma_leap, split[2],
                  QAdd(sx, QMul(k_to_d(sx, sigma(c), denoised(c)),
                                QSub(split[1], sigma(c)))),
                  [order |-> 1, sigma_leap |-> sigma_leap, curr_leap |-> curr_leap])
        Dance(leap) ==
            Split(leap[1], leap[2], get_ancestral_step(sigma(c), leap[2], inst.eta))
    IN IF sigma_next(c) = Zero THEN euler_step(inst, c, sx)
       ELSE Dance(dancing_leap(inst, c))

\* DPMPPSDEStep.step, step 2, the midpoint evaluation made on the sample the
\* step was called with instead of the one handed back.
dpmpp_sde_resume_own_sample(inst, c, fr, sent) ==
    LET eta == get_dyn_eta(inst, c)
        t == t_fn(sigma(c))
        t_next == t_fn(sigma_next(c))
        h == QSub(t_next, t)
        s == QAdd(t, QMul(h, inst.r))
        fac == QDiv(One, QMul(I(2), inst.r))
        denoised_2 == Model(fr.x, sigma_fn(s)).denoised
        split == get_ancestral_step(sigma_fn(t), sigma_fn(t_next), eta)
        t_next_ == t_fn(split[1])
        denoised_d == QAdd(QMul(QSub(One, fac), denoised(c)), QMul(fac, denoised_2))
        nx == QSub(QMul(QDiv(sigma_fn(t_next_), sigma_fn(t)), fr.x),
                   QMul(Expm1(QSub(t, t_next_)), denoised_d))
    IN Final(result(c, inst, nx, split[2]), 1,
             <<ModelCall(fr.x, sigma_fn(s), 1)>>, HCur, SCur(c), inst)

\* DPMPPSDEStep.step, step 2: after the intermediate result was consumed.
dpmpp_sde_resume(inst, c, fr, sent) ==
    LET eta == get_dyn_eta(inst, c)
        t == t_fn(sigma(c))
        t_next == t_fn(sigma_next(c))
        h == QSub(t_next, t)
        s == QAdd(t, QMul(h, inst.r))
        fac == QDiv(One, QMul(I(2), inst.r))
        denoised_2 == Model(sent, sigma_fn(s)).denoised
        split == get_ancestral_step(sigma_fn(t), sigma_fn(t_next), eta)
        t_next_ == t_fn(split[1])
        denoised_d == QAdd(QMul(QSub(One, fac), denoised(c)), QMul(fac, denoised_2))
        nx == QSub(QMul(QDiv(sigma_fn(t_next_), sigma_fn(t)), fr.x),
                   QMul(Expm1(QSub(t, t_next_)), denoised_d))
    IN Final(result(c, inst, nx, split[2]), 1,
             <<ModelCall(sent, sigma_fn(s), 1)>>, HCur, SCur(c), inst)

\* DPMPPSDEStep.step, step 1
dpmpp_sde_step(inst, c, sx) ==
    LET eta == get_dyn_eta(inst, c)
        t == t_fn(sigma(c))
        t_next == t_fn(sigma_next(c))
        h == QSub(t_next, t)
        s == QAdd(t, QMul(h, inst.r))
        split == get_ancestral_step(sigma_fn(t), sigma_fn(s), eta)
        s_ == t_fn(split[1])
        x_2 == QSub(QMul(QDiv(sigma_fn(s_), sigma_fn(t)), sx),
                    QMul(Expm1(QSub(t, s_)), denoised(c)))
    IN IF sigma_next(c) = Zero THEN euler_step(inst, c, sx)
       ELSE Yield(NonFinal(c, inst, x_2, split[2], sigma_fn(t), sigma_fn(s)),
                  "step2", [order |-> 1, x |-> sx], <<>>, HCur, SCur(c), inst)

(***************************************************************************)
(* The adaptive adapters: tde and tode                                     *)
(***************************************************************************)
\* MinSigmaStepMixin.adjust_step(sigma, min_sigma, threshold=5e-04)
adjust_step(sg, min_sigma) ==
    IF QLt(Q(1, 2000), QSub(min_sigma, sg)) THEN QMax(sg, min_sigma) ELSE sg

\* The time below which odefn returns zeros without touching the model.
OdeEps == Q(1, 100000)

\* TDEStep.step / TODEStep.step without the Euler fallback below ode_min_sigma.
ode_step_no_fallback(inst, c, sx) ==
    LET eta == get_dyn_eta(inst, c)
        s == sigma(c)
        sn == adjust_step(sigma_next(c), inst.ode_min_sigma)
        split == ss_get_ancestral_step(c, eta, Some(sn))
        hacked == QMax(Zero, QSub(split[1],
                                  QMul(QSub(s, split[1]), inst.ode_fixup_hack)))
        sigma_down == IF inst.ode_fixup_hack # Zero THEN hacked ELSE split[1]
    IN [kind |-> "ode",
             frame |-> [order |-> 1, x |-> sx, sn |-> sn,
                        sigma_down |-> sigma_down, sigma_up |-> split[2],
                        mcc |-> 0, bidx |-> 0, result |-> sx,
                        calls |-> 0, evals |-> 0, reused |-> 0],
             mcalls |-> <<>>, hreads |-> {}, sreads |-> SCur(c), inst |-> inst]

\* TDEStep.step / TODEStep.step up to the call of the external solver: the
\* Euler fallback, or the locals the derivative callback closes over.
\* (bidx and the per-element reset of mcc exist in tde only.)
ode_step(inst, c, sx) ==
    LET eta == get_dyn_eta(inst, c)
        s == sigma(c)
        sn == adjust_step(sigma_next(c), inst.ode_min_sigma)
        split == ss_get_ancestral_step(c, eta, Some(sn))
        hacked == QMax(Zero, QSub(split[1],
                                  QMul(QSub(s, split[1]), inst.ode_fixup_hack)))
        sigma_down == IF inst.ode_fixup_hack # Zero THEN hacked ELSE split[1]
    IN IF QLe(s, inst.ode_min_sigma) THEN euler_step(inst, c, sx)
       ELSE [kind |-> "ode",
             frame |-> [order |-> 1, x |-> sx, sn |-> sn,
                        sigma_down |-> sigma_down, sigma_up |-> split[2],
                        mcc |-> 0, bidx |-> 0, result |-> sx,
                        calls |-> 0, evals |-> 0, reused |-> 0],
             mcalls |-> <<>>, hreads |-> {}, sreads |-> SCur(c), inst |-> inst]

\* odefn of TDEStep.step without the "Model call limit exceeded" check.
tde_odefn_uncapped(inst, c, fr, t, y) ==
    LET reuse == t = sigma(c) /\ y = fr.x
        mr == IF reuse THEN hcur(c) ELSE Model(y, t)
    IN IF QLt(t, OdeEps)
       THEN [raised |-> "", val |-> Zero, mcc |-> fr.mcc, mcalls |-> <<>>,
             hreads |-> {}]
       ELSE [raised |-> "", val |-> to_d(inst, mr, Some(y), Some(t)),
             mcc |-> IF reuse THEN 1 ELSE fr.mcc + 1,
             mcalls |-> IF reuse THEN <<>> ELSE <<ModelCall(y, t, fr.mcc)>>,
             hreads |-> IF reuse THEN HCur ELSE {}]

\* odefn of TDEStep.step: the derivative returned (or the error raised), the
\* counter afterwards and the model call made, if any.
tde_odefn(inst, c, fr, t, y) ==
    LET reuse == t = sigma(c) /\ y = fr.x
        mr == IF reuse THEN hcur(c) ELSE Model(y, t)
    IN IF QLt(t, OdeEps)
       THEN [raised |-> "", val |-> Zero, mcc |-> fr.mcc, mcalls |-> <<>>,
             hreads |-> {}]
       ELSE IF fr.mcc >= inst.ode_max_nfe
       THEN [raised |-> "RuntimeError", val |-> NaN, mcc |-> fr.mcc,
             mcalls |-> <<>>, hreads |-> {}]
       ELSE [raised |-> "", val |-> to_d(inst, mr, Some(y), Some(t)),
             mcc |-> IF reuse THEN 1 ELSE fr.mcc + 1,
             mcalls |-> IF reuse THEN <<>> ELSE <<ModelCall(y, t, fr.mcc)>>,
             hreads |-> IF reuse THEN HCur ELSE {}]

\* odefn of TODEStep.step
tode_odefn(inst, c, fr, t, y) ==
    LET reuse == fr.mcc = 0 /\ t = sigma(c)
        mr == IF reuse THEN hcur(c) ELSE Model(y, QMax(t, OdeEps))
    IN IF QLe(t, OdeEps)
       THEN [raised |-> "", val |-> Zero, mcc |-> fr.mcc, mcalls |-> <<>>,
             hreads |-> {}]
       ELSE IF fr.mcc >= inst.ode_max_nfe
       THEN [raised |-> "RuntimeError", val |-> NaN, mcc |-> fr.mcc,
             mcalls |-> <<>>, hreads |-> {}]
       ELSE [raised |-> "", val |-> to_d(inst, mr, None, None),
             mcc |-> IF reuse THEN 1 ELSE fr.mcc + 1,
             mcalls |-> IF reuse THEN <<>>
                        ELSE <<ModelCall(y, QMax(t, OdeEps), fr.mcc)>>,
             hreads |-> IF reuse THEN HCur ELSE {}]

odefn(inst, c, fr, t, y) ==
    IF inst.name = "tde" THEN tde_odefn(inst, c, fr, t, y)
    ELSE tode_odefn(inst, c, fr, t, y)

\* The external solver's estimate of the solution at sigma_down after a
\* derivative evaluation: the straight line from the start with that slope.
ode_solution(c, fr, dv) ==
    QAdd(fr.x, QMul(dv, QSub(fr.sigma_down, sigma(c))))

\* MinSigmaStepMixin.adjusted_step after its yield, without sigma_up *= 0.
adjusted_step_resume_keeps_noise(inst, c, fr, sent) ==
    LET mr == Model(sent, fr.sn)
        adt == QSub(sigma_next(c), fr.sn)
        res == QAdd(sent, QMul(to_d(inst, mr, None, None), adt))
    IN Yield(result(c, inst, res, fr.sigma_up), "return", fr,
             <<ModelCall(sent, fr.sn, fr.mcc)>>, {}, {c.idx + 1}, inst)

\* MinSigmaStepMixin.adjusted_step, from the non-terminal result on.
adjusted_step_resume(inst, c, fr, sent) ==
    LET mr == Model(sent, fr.sn)
        adt == QSub(sigma_next(c), fr.sn)
        res == QAdd(sent, QMul(to_d(inst, mr, None, None), adt))
    IN Yield(result(c, inst, res, QMul(fr.sigma_up, Zero)), "return", fr,
             <<ModelCall(sent, fr.sn, fr.mcc)>>, {}, {c.idx + 1}, inst)

\* The step after the solver returned: adjusted_step and the final result.
adjusted_step(inst, c, fr) ==
    IF fr.sn = sigma_next(c)
    THEN Yield(result(c, inst, fr.result, fr.sigma_up), "return", fr, <<>>, {},
               {c.idx + 1}, inst)
    ELSE Yield(NonFinal(c, inst, fr.result, fr.sigma_up, sigma(c), fr.sn),
               "corrective", fr, <<>>, {}, {c.idx, c.idx + 1}, inst)

(***************************************************************************)
(* Dispatch on the class                                                   *)
(***************************************************************************)
\* <class>.step(x, ss) up to its first yield (or its call of the solver).
step(inst, c, sx) ==
    CASE inst.name = "euler" -> euler_step(inst, c, sx)
      [] inst.name = "euler_cycle" -> euler_cycle_step(inst, c, sx)
      [] inst.name = "dpmpp_2m" -> dpmpp_2m_step(inst, c, sx)
      [] inst.name = "dpmpp_2m_sde" -> dpmpp_2m_sde_step(inst, c, sx)
      [] inst.name = "dpmpp_3m_sde" -> dpmpp_3m_sde_step(inst, c, sx)
      [] inst.name = "reversible_heun" -> reversible_heun_step(inst, c, sx)
      [] inst.name = "reversible_heun_1s" -> reversible_heun_1s_step(inst, c, sx)
      [] inst.name = "res" -> res_step(inst, c, sx)
      [] inst.name = "trapezoidal" -> trapezoidal_step(inst, c, sx)
      [] inst.name = "trapezoidal_cycle" -> trapezoidal_cycle_step(inst, c, sx)
      [] inst.name \in {"bogacki", "reversible_bogacki"} -> bogacki_step(inst, c, sx)
      [] inst.name = "rk4" -> rk4_step(inst, c, sx)
      [] inst.name = "euler_dancing" -> euler_dancing_step(inst, c, sx)
      [] inst.name = "dpmpp_2s" -> dpmpp_2s_step(inst, c, sx)
      [] inst.name = "dpmpp_sde" -> dpmpp_sde_step(inst, c, sx)
      [] inst.name = "ttm_jvp" -> ttm_jvp_step(inst, c, sx)
      [] inst.name = "ipndm" -> ipndm_step(inst, c, sx)
      [] inst.name = "ipndm_v" -> ipndm_v_step(inst, c, sx)
      [] inst.name = "deis" -> deis_step(inst, c, sx)
      [] inst.name = "heunpp2" -> heunpp2_step(inst, c, sx)
      [] inst.name \in {"tde", "tode"} -> ode_step(inst, c, sx)

\* The generator resumed with the sample the driver sends back.
resume(inst, c, fr, sent) ==
    CASE fr.nxt = "dance" -> euler_dancing_resume(inst, c, fr, sent)
      [] fr.nxt = "step2" -> dpmpp_sde_resume(inst, c, fr, sent)
      [] fr.nxt = "corrective" -> adjusted_step_resume(inst, c, fr, sent)

(***************************************************************************)
(* The outer sampling loop driving one integrator over a schedule          *)
(***************************************************************************)
Sched(ints) == [i \in 1..Len(ints) |-> I(ints[i])]

\* The noise-level sequences the driver is run on: descending to a positive
\* level, descending to 0, a single transition, and one with a restart.
Schedules ==
    {Sched(<<256, 64, 16, 4, 1>>), Sched(<<64, 16, 4, 1, 0>>),
     Sched(<<4, 1, 0>>), Sched(<<16, 4>>), Sched(<<4, 1, 16, 4>>)}

\* The adaptive adapters are run on the short ones: the solver chooses its
\* evaluations freely in every step.
OdeSchedules == {Sched(<<4, 1, 0>>), Sched(<<16, 4>>)}

SchedulesOf(cls) == IF cls \in {"tde", "tode"} THEN OdeSchedules ELSE Schedules

\* The sample the run starts from.
X0 == I(8)

\* The noise source: its k-th draw (a seeded, deterministic sequence).
NoiseAt(k) == IF k % 2 = 0 THEN One ELSE QNeg(One)

\* The context of the first step: the history holds the model result of the
\* current sample, after `older` entries left by an earlier chunk of the run.
Context(sigmas, older) ==
    [sigmas |-> sigmas, idx |-> 0,
     hist |-> [i \in 1..(older + 1) |->
                 Model(QAdd(X0, I(older + 1 - i)), At(sigmas, 0))],
     main_idx |-> None, main_sigmas |-> None, batch |-> 1]

\* The configurations the integrators are built with.
Configs(cls) ==
    {[DefaultKwargs EXCEPT !.eta = e, !.history_limit = hl,
                           !.ode_max_nfe = MaxNfe, !.ode_min_sigma = ms,
                           !.ode_fixup_hack = Q(1, 4), !.max_order = mo,
                           !.leap = lp] :
        e \in {Zero, One},
        hl \in IF cls \in HistoryClasses /\ max_history(cls) > 0
               THEN {None, Some(0), Some(max_history(cls))} ELSE {None},
        ms \in IF cls \in {"tde", "tode"}
               THEN {Some(Q(1, 4)), Some(I(2)), Some(I(4))}
               ELSE {DefaultKwargs.ode_min_sigma},
        mo \in IF cls = "heunpp2" THEN {0, 2, 3, 4}
               ELSE {DefaultKwargs.max_order},
        lp \in IF cls = "euler_dancing" THEN {0, 2, 3}
               ELSE {DefaultKwargs.leap}}

FreshObs(noisepos) ==
    [mcalls |-> <<>>, hreads |-> {}, sreads |-> {}, draws |-> 0,
     noisepos |-> noisepos, order |-> 0]

Init ==
    \E key \in DOMAIN STEP_SAMPLERS, older \in {0, OlderHist} :
      \E kw \in Configs(STEP_SAMPLERS[key]), sigmas \in SchedulesOf(STEP_SAMPLERS[key]) :
        /\ self = New(STEP_SAMPLERS[key], kw)
        /\ ss = [Context(sigmas, older) EXCEPT
                   !.batch = IF STEP_SAMPLERS[key] = "tde" /\ older > 0
                             THEN 2 ELSE 1]
        /\ x = X0
        /\ pc = "idle"
        /\ frame = NoFrame
        /\ results = <<>>
        /\ obs = FreshObs(0)
        /\ call = [op |-> "none"]

\* What the generator did up to a yield, recorded.
Emit(o, ob, rs) ==
    /\ results' = Append(rs, o.res)
    /\ pc' = IF o.nxt = "return" THEN "final" ELSE "suspended"
    /\ frame' = [nxt |-> o.nxt] @@ o.frame
    /\ obs' = [ob EXCEPT !.mcalls = @ \o o.mcalls,
                         !.hreads = @ \cup o.hreads,
                         !.sreads = @ \cup o.sreads,
                         !.order = o.frame.order]
    /\ self' = o.inst

\* The driver calls step(x, ss) and runs the generator to its first yield.
BeginStep ==
    /\ pc = "idle"
    /\ call' = [op |-> "step", x |-> x]
    /\ \E o \in {step(self, ss, x)} :
          IF o.kind = "ode"
          THEN /\ pc' = "ode"
               /\ frame' = o.frame
               /\ results' = <<>>
               /\ obs' = [FreshObs(obs.noisepos) EXCEPT !.sreads = o.sreads,
                                                         !.order = 1]
               /\ self' = self
          ELSE IF o.kind = "raise"
          THEN /\ pc' = "failed"
               /\ frame' = NoFrame
               /\ results' = <<>>
               /\ obs' = FreshObs(obs.noisepos)
               /\ self' = self
          ELSE Emit(o, FreshObs(obs.noisepos), <<>>)
    /\ UNCHANGED <<ss, x>>

\* The external solver evaluates the derivative callback at (t, y).
OdeApply(t, y) ==
    /\ LET o == odefn(self, ss, frame, t, y)
       IN IF o.raised # ""
          THEN /\ pc' = "failed"
               /\ UNCHANGED <<frame, obs>>
          ELSE /\ pc' = "ode"
               /\ frame' = [frame EXCEPT
                     !.mcc = o.mcc, !.calls = @ + 1,
                     !.evals = @ + Len(o.mcalls),
                     !.reused = @ + (IF o.hreads = {} THEN 0 ELSE 1),
                     !.result = ode_solution(ss, frame, o.val)]
               /\ obs' = [obs EXCEPT !.mcalls = @ \o o.mcalls,
                                     !.hreads = @ \cup o.hreads]
    /\ UNCHANGED <<self, ss, x, results>>

\* One invocation of odefn by the external solver during a step.
OdeEval(t, y) ==
    /\ frame.calls < MaxOdeCalls
    /\ OdeApply(t, y)
    /\ UNCHANGED call

\* The times the solver may choose: the start of the step, its end, a time
\* below OdeEps.  The states: the input sample, the current estimate.
OdeTimes == {sigma(ss), frame.sigma_down, Zero}

OdeStates == {x, frame.result}

OdeCall ==
    /\ pc = "ode"
    /\ \E t \in OdeTimes, y \in OdeStates : OdeEval(t, y)

\* The external solver returns: tde goes on to the next batch element, and
\* after the last one (tode: at once) the step yields its next result.
OdeReturn ==
    /\ pc = "ode"
    /\ frame.calls > 0
    /\ IF self.name = "tde" /\ frame.bidx + 1 < ss.batch
       THEN /\ frame' = [frame EXCEPT !.bidx = @ + 1, !.mcc = 0, !.calls = 0,
                                      !.evals = 0, !.reused = 0]
            /\ UNCHANGED <<pc, results, obs, self>>
       ELSE Emit(adjusted_step(self, ss, frame), obs, results)
    /\ UNCHANGED <<ss, x, call>>

\* The driver consumes a non-terminal result: it applies the noise and sends
\* the sample back into the generator, which runs to its next yield.
Resume ==
    /\ pc = "suspended"
    /\ LET n == noise_x(results[Len(results)], None, One, NoiseAt(obs.noisepos))
           ob == [obs EXCEPT !.draws = @ + n.draws, !.noisepos = @ + n.draws]
       IN Emit(resume(self, ss, frame, n.ret), ob, results)
    /\ UNCHANGED <<ss, x, call>>

\* The driver consumes the terminal result: the noised sample is the step's
\* output.
Consume ==
    /\ pc = "final"
    /\ LET n == noise_x(results[Len(results)], None, One, NoiseAt(obs.noisepos))
       IN /\ x' = n.ret
          /\ obs' = [obs EXCEPT !.draws = @ + n.draws, !.noisepos = @ + n.draws]
    /\ pc' = "done"
    /\ UNCHANGED <<self, ss, frame, results, call>>

\* The driver moves to the next transition: it evaluates the model on the new
\* sample and appends the result to the history.
NextStep ==
    /\ pc = "done"
    /\ ss.idx + 2 < Len(ss.sigmas)
    /\ ss' = [ss EXCEPT !.idx = @ + 1,
                        !.hist = Append(@, Model(x, sigma_next(ss)))]
    /\ pc' = "idle"
    /\ UNCHANGED <<self, x, frame, results, obs, call>>

\* The schedule is exhausted.
Finish ==
    /\ pc = "done"
    /\ ss.idx + 2 = Len(ss.sigmas)
    /\ pc' = "finished"
    /\ UNCHANGED <<self, ss, x, frame, results, obs, call>>

Next ==
    \/ BeginStep
    \/ OdeCall
    \/ OdeReturn
    \/ Resume
    \/ Consume
    \/ NextStep
    \/ Finish

Spec == Init /\ [][Next]_vars

(***************************************************************************)
(* SamplerResult.noise_x on its own                                        *)
(***************************************************************************)
Idle == [op |-> "none"]

InitNoise ==
    \E rx \in {Zero, I(3)}, st \in {Zero, Half, I(2)}, sn \in {Zero, One, I(2)},
       snx \in {Zero, I(4)}, fin \in BOOLEAN :
        /\ self = New("euler", DefaultKwargs)
        /\ ss = Context(Sched(<<16, 4>>), 0)
        /\ x = X0
        /\ pc = "noise_x"
        /\ frame = NoFrame
        /\ results = <<[x |-> rx, strength |-> st, s_noise |-> sn,
                        sigma |-> I(16), sigma_next |-> snx, final |-> fin]>>
        /\ obs = FreshObs(0)
        /\ call = [op |-> "none", n |-> 0]

\* result.noise_x(x=xarg, scale=scale)
NoiseX(xarg, scale) ==
    /\ pc = "noise_x"
    /\ call.n < MaxNoiseX
    /\ LET n == noise_x(results[1], xarg, scale, NoiseAt(obs.noisepos))
       IN /\ results' = <<n.r>>
          /\ call' = [op |-> "noise_x", n |-> call.n + 1, r |-> results[1],
                      xarg |-> xarg, scale |-> scale,
                      noise |-> NoiseAt(obs.noisepos), ret |-> n.ret,
                      pos |-> obs.noisepos]
          /\ obs' = [obs EXCEPT !.noisepos = @ + n.draws, !.draws = @ + n.draws]
    /\ UNCHANGED <<self, ss, x, pc, frame>>

NextNoise == \E xarg \in {None, Some(I(5))}, scale \in {One, I(2), Zero} :
                NoiseX(xarg, scale)

SpecNoise == InitNoise /\ [][NextNoise]_vars

(***************************************************************************)
(* SingleStepSampler.get_dyn_value on its own                              *)
(***************************************************************************)
Ramp(n) == [i \in 1..n |-> I(Pow(4, n - i))]

DynBounds == {None, Some(Zero), Some(One), Some(Q(-3, 2))}

InitDyn ==
    \E n \in 1..MaxSigmas, outer \in 0..(MaxSigmas + 1) :
      \E i \in 0..(n - 1), oi \in 0..Max(0, outer - 1) :
        /\ self = New("euler", DefaultKwargs)
        /\ ss = [Context(Ramp(n), 0) EXCEPT
                   !.idx = i,
                   !.main_idx = IF outer = 0 THEN None ELSE Some(oi),
                   !.main_sigmas = IF outer = 0 THEN None ELSE Some(Ramp(outer))]
        /\ x = X0
        /\ pc = "get_dyn_value"
        /\ frame = NoFrame
        /\ results = <<>>
        /\ obs = FreshObs(0)
        /\ call = Idle

\* self.get_dyn_value(ss, start, end)
DynCall(start, end) ==
    /\ pc = "get_dyn_value"
    /\ call' = [op |-> "get_dyn_value", start |-> start, end |-> end,
                out |-> get_dyn_value(ss, start, end)]
    /\ UNCHANGED <<self, ss, x, pc, frame, results, obs>>

NextDyn == \E start \in DynBounds, end \in DynBounds : DynCall(start, end)

SpecDyn == InitDyn /\ [][NextDyn]_vars

(***************************************************************************)
(* HistorySingleStepSampler.available_history on its own                   *)
(***************************************************************************)
InitHist ==
    \E cls \in HistoryClasses, req \in {None} \cup {Some(k) : k \in -1..MaxReqCap} :
        /\ self = New(cls, [DefaultKwargs EXCEPT !.history_limit = req])
        /\ ss = [Context(Ramp(MaxHist + 2), 0) EXCEPT
                   !.hist = <<Model(X0, I(1))>>]
        /\ x = X0
        /\ pc = "available_history"
        /\ frame = [order |-> 0, req |-> req]
        /\ results = <<>>
        /\ obs = FreshObs(0)
        /\ call = Idle

\* self.available_history(ss)
HistCall ==
    /\ pc = "available_history"
    /\ call' = [op |-> "available_history", out |-> available_history(self, ss),
                idx |-> ss.idx, entries |-> Len(ss.hist)]
    /\ UNCHANGED <<self, ss, x, pc, frame, results, obs>>

\* The driver appends a model result to the history.
HistAppend ==
    /\ pc = "available_history"
    /\ Len(ss.hist) <= MaxHist
    /\ ss' = [ss EXCEPT !.hist = Append(@, Model(X0, I(1)))]
    /\ call' = Idle
    /\ UNCHANGED <<self, x, pc, frame, results, obs>>

\* The driver moves on in the schedule (a restart puts it back to index 0).
HistIndex(i) ==
    /\ pc = "available_history"
    /\ i # ss.idx
    /\ ss' = [ss EXCEPT !.idx = i]
    /\ call' = Idle
    /\ UNCHANGED <<self, x, pc, frame, results, obs>>

NextHist ==
    \/ HistCall
    \/ HistAppend
    \/ \E i \in 0..MaxHist : HistIndex(i)

SpecHist == InitHist /\ [][NextHist]_vars

(***************************************************************************)
(* DEISStep.get_deis_coeffs on its own                                     *)
(***************************************************************************)
\* Schedules with different keys, and two with the same key (length, first
\* and last level) that differ in between.
DeisSchedules ==
    {Sched(<<64, 16, 4, 1>>), Sched(<<64, 32, 4, 1>>), Sched(<<64, 16, 4, 0>>),
     Sched(<<16, 4, 1>>)}

InitDeis ==
    \E req \in {None, Some(2), Some(3)}, sigmas \in DeisSchedules :
        /\ self = New("deis", [DefaultKwargs EXCEPT !.history_limit = req])
        /\ ss = Context(sigmas, 0)
        /\ x = X0
        /\ pc = "get_deis_coeffs"
        /\ frame = NoFrame
        /\ results = <<>>
        /\ obs = FreshObs(0)
        /\ call = [op |-> "none", n |-> 0, recomputations |-> 0]

\* self.get_deis_coeffs(ss)
DeisCall ==
    /\ pc = "get_deis_coeffs"
    /\ call.n < MaxDeisCalls
    /\ LET got == get_deis_coeffs(self, ss)
       IN /\ self' = got.inst
          /\ call' = [op |-> "get_deis_coeffs", n |-> call.n + 1,
                      key_before |-> self.deis_coeffs_key,
                      table_before |-> self.deis_coeffs,
                      key |-> deis_key(self, ss),
                      ret |-> got.ret,
                      before |-> call.recomputations,
                      recomputations |-> call.recomputations + got.recomputed]
    /\ UNCHANGED <<ss, x, pc, frame, results, obs>>

\* The instance is used for another run, over this schedule.
DeisSchedule(sigmas) ==
    /\ pc = "get_deis_coeffs"
    /\ sigmas # ss.sigmas
    /\ ss' = Context(sigmas, 0)
    /\ call' = [op |-> "none", n |-> call.n,
                recomputations |-> call.recomputations]
    /\ UNCHANGED <<self, x, pc, frame, results, obs>>

NextDeis ==
    \/ DeisCall
    \/ \E sigmas \in DeisSchedules : DeisSchedule(sigmas)

SpecDeis == InitDeis /\ [][NextDeis]_vars

(***************************************************************************)
(* Properties of the pure operations                                       *)
(***************************************************************************)
\* C3: noise_x works with the effective scale strength * s_noise.  When the
\* result's sigma_next is 0 or the effective scale is 0 it returns the sample
\* (the argument, or the result's own) unchanged and makes no draw from the
\* noise source; otherwise it makes exactly one draw and returns
\* sample + noise * effective scale * scale.
C3_NoiseX ==
    call.op = "noise_x" =>
        LET r == call.r
            eff == QMul(r.strength, r.s_noise)
            base == IF IsNone(call.xarg) THEN r.x ELSE Get(call.xarg)
        IN IF r.sigma_next = Zero \/ eff = Zero
           THEN /\ call.ret = base
                /\ obs.noisepos = call.pos
           ELSE /\ obs.noisepos = call.pos + 1
                /\ call.ret = QAdd(base, QMul(QMul(call.noise, eff), call.scale))

\* C3 (witness): a call on a result with sigma_next # 0 and a non-zero
\* effective scale has drawn once and returned a changed sample.
C3_Witness ==
    /\ call.op = "noise_x"
    /\ call.r.sigma_next # Zero
    /\ QMul(call.r.strength, call.r.s_noise) # Zero
    /\ obs.noisepos = call.pos + 1
    /\ call.ret # (IF IsNone(call.xarg) THEN call.r.x ELSE Get(call.xarg))

\* The value start + (end - start) * i / (n - 1), for n > 1.
DynLine(start, end, i, n) == QAdd(start, QMul(QSub(end, start), Q(i, n - 1)))

Between(v, a, b) == (QLe(a, v) /\ QLe(v, b)) \/ (QLe(b, v) /\ QLe(v, a))

\* C4 (as stated): get_dyn_value returns 1.0 when start or end is unset, the
\* common value when they are equal, and otherwise, for every index
\* 0 <= idx <= len - 1 of the outer (else the local) sequence, a value: the one
\* on the line from start to end, between the two, moving toward end as the
\* index grows.
C4_DynValue ==
    call.op = "get_dyn_value" =>
        LET i == IF IsNone(ss.main_idx) THEN ss.idx ELSE Get(ss.main_idx)
            n == Len(IF IsNone(ss.main_sigmas) THEN ss.sigmas
                     ELSE Get(ss.main_sigmas))
            start == call.start
            end == call.end
        IN IF IsNone(start) \/ IsNone(end) THEN call.out = Ret(One)
           ELSE IF Get(start) = Get(end) THEN call.out = Ret(Get(start))
           ELSE /\ call.out.raised = ""
                /\ Between(call.out.val, Get(start), Get(end))
                /\ n > 1 => call.out.val = DynLine(Get(start), Get(end), i, n)
                /\ \A j \in 0..(n - 1) :
                     LET vj == get_dyn_value([ss EXCEPT !.idx = j,
                                  !.main_idx = IF IsNone(ss.main_idx) THEN None
                                               ELSE Some(j)], start, end).val
                     IN j >= i => Between(vj, call.out.val, Get(end))

\* C4 (what holds): the same, for sequences of at least two noise levels.
C4_DynValueTwoLevels ==
    Len(IF IsNone(ss.main_sigmas) THEN ss.sigmas ELSE Get(ss.main_sigmas)) > 1
        => C4_DynValue

\* C4 (witness): an interpolated value strictly between distinct bounds.
C4_Witness ==
    /\ call.op = "get_dyn_value"
    /\ ~IsNone(call.start) /\ ~IsNone(call.end)
    /\ ~IsNone(ss.main_idx)
    /\ call.out.raised = ""
    /\ call.out.val \notin {Get(call.start), Get(call.end)}

\* C5 (as stated): for every schedule, the shortest ones included, and every
\* pair of distinct set bounds, get_dyn_value returns a value and raises no
\* division error.
C5_NoDivisionError ==
    call.op = "get_dyn_value" => call.out.raised # "ZeroDivisionError"

\* C5 (what holds): with a single transition (two noise levels) or more, no
\* division error is raised.
C5_NoDivisionErrorTwoLevels ==
    (/\ call.op = "get_dyn_value"
     /\ Len(IF IsNone(ss.main_sigmas) THEN ss.sigmas ELSE Get(ss.main_sigmas)) > 1)
        => call.out.raised = ""

\* C5 (witness): distinct set bounds on a single transition give a value.
C5_Witness ==
    /\ call.op = "get_dyn_value"
    /\ ~IsNone(call.start) /\ ~IsNone(call.end) /\ call.start # call.end
    /\ IsNone(ss.main_sigmas) /\ Len(ss.sigmas) = 2
    /\ call.out.raised = ""

\* C6: the configured cap is the requested one (the class default when none
\* is given) clamped into [0, max_history]; available_history is the least of
\* idx, the cap, max_history and the stored entries - 1, and so lies in
\* [0, max_history], is at most idx and at most the stored entries - 1.
C6_AvailableHistory ==
    call.op = "available_history" =>
        LET mh == max_history(self.name)
            raw == IF IsNone(frame.req) THEN default_history_limit(self.name)
                   ELSE Get(frame.req)
            hl == self.history_limit
            out == call.out
        IN /\ hl \in 0..mh
           /\ raw \in 0..mh => hl = raw
           /\ raw < 0 => hl = 0
           /\ raw > mh => hl = mh
           /\ out \in 0..mh
           /\ out <= ss.idx
           /\ out <= Len(ss.hist) - 1
           /\ out <= hl
           /\ out \in {ss.idx, hl, mh, Len(ss.hist) - 1}

\* C6 (witness): the index is what bounds the history: more entries are
\* stored and allowed than steps have been taken.
C6_Witness ==
    /\ call.op = "available_history"
    /\ call.out = ss.idx
    /\ call.out > 0
    /\ call.out < self.history_limit
    /\ call.out < Len(ss.hist) - 1

\* C10: a call of get_deis_coeffs recomputes the table exactly when no table
\* has been computed or the key (history cap, schedule length, first sigma,
\* last sigma) differs from the stored one; with an unchanged key it returns
\* the stored table and the count of recomputations stays.
C10_RecomputeOnKeyChange ==
    call.op = "get_deis_coeffs" =>
        LET key == <<I(self.history_limit), I(Len(ss.sigmas)), ss.sigmas[1],
                     ss.sigmas[Len(ss.sigmas)]>>
            changed == IsNone(call.key_before) \/ Get(call.key_before) # key
        IN /\ IsNone(call.key_before) <=> IsNone(call.table_before)
           /\ call.recomputations = call.before + (IF changed THEN 1 ELSE 0)
           /\ ~changed => /\ call.ret = Get(call.table_before)
                          /\ self.deis_coeffs = call.table_before
           /\ changed => /\ call.ret = get_deis_coeff_list(ss.sigmas,
                                                           self.history_limit + 1)
                         /\ self.deis_coeffs = Some(call.ret)
           /\ self.deis_coeffs_key = Some(key)

\* C10 (witness): a call with a stored table and a different key has
\* recomputed, for the second time on this instance.
C10_Witness ==
    /\ call.op = "get_deis_coeffs"
    /\ ~IsNone(call.key_before)
    /\ Get(call.key_before) # call.key
    /\ call.before = 1
    /\ call.recomputations = 2

(***************************************************************************)
(* Properties of the steps under the driver                                *)
(***************************************************************************)
NoFinalIn(rs) == \A i \in 1..Len(rs) : ~rs[i].final

OneFinalLast(rs) ==
    /\ Len(rs) >= 1
    /\ rs[Len(rs)].final
    /\ \A i \in 1..(Len(rs) - 1) : ~rs[i].final

\* C1 (as stated): the results of every step call, once the call has ended,
\* hold exactly one result with final = True, and it is the last.
C1_EveryStepEndsFinal ==
    pc \in {"final", "done", "finished", "failed"} => OneFinalLast(results)

\* C1 (amended): a step call that the adaptive adapters' budget error does not
\* abort produces exactly one final result, as its last, with only non-final
\* results before it; while the generator is suspended or in the solver no
\* final result has been produced, and a call aborted by the budget error (tde
\* and tode only) has produced no final result.
C1_OneFinalUnlessAborted ==
    /\ pc \in {"final", "done", "finished"} => OneFinalLast(results)
    /\ pc \in {"suspended", "ode"} => NoFinalIn(results)
    /\ pc = "failed" => /\ NoFinalIn(results)
                        /\ self.name \in {"tde", "tode"}

\* C1 (witness): a step that suspended once has ended: a non-final result,
\* then the final one.
C1_Witness ==
    /\ pc = "final"
    /\ Len(results) = 2
    /\ ~results[1].final
    /\ results[2].final

NoiseFree(r) == noise_x(r, None, One, One).draws = 0

\* C2 (as stated): a step with sigma_next = 0 produces a single terminal
\* result, the plain Euler update or the model's denoised estimate, makes no
\* model call, never suspends or enters a solver, and no result of it has
\* noise injected.
C2_LastStepPlain ==
    sigma_next(ss) = Zero =>
        /\ pc \notin {"suspended", "ode", "failed"}
        /\ pc \in {"final", "done"} =>
             /\ Len(results) = 1
             /\ results[1] \in {euler_result(self, ss, call.x),
                                denoised_result(ss, self)}
             /\ obs.mcalls = <<>>
             /\ obs.draws = 0
             /\ \A i \in 1..Len(results) : NoiseFree(results[i])

\* C2 (what holds): the same for every integrator but dpmpp_2m_sde and the
\* adaptive adapters tde and tode.
C2_LastStepPlainElsewhere ==
    self.name \notin {"dpmpp_2m_sde", "tde", "tode"} => C2_LastStepPlain

\* C2 (witness): dpmpp_2m_sde with eta = 0 has ended a step to sigma_next = 0
\* with a sample that is not a number.
C2_Witness ==
    /\ pc = "final"
    /\ self.name = "dpmpp_2m_sde"
    /\ sigma_next(ss) = Zero
    /\ IsNaN(results[1].x)

C7Classes ==
    {"dpmpp_2m", "dpmpp_2m_sde", "dpmpp_3m_sde", "ipndm", "ipndm_v", "deis",
     "reversible_heun_1s"}

\* C7: with history cap 0 or at schedule index 0, a history-bounded
\* integrator produces exactly what it produces when the buffer holds the
\* current entry alone (its order-1 formula), with the same model calls, and
\* reads no history entry but the current one.
C7_OrderOneFallback ==
    (/\ pc = "final"
     /\ self.name \in C7Classes
     /\ (self.history_limit = 0 \/ ss.idx = 0)) =>
        LET alone == [ss EXCEPT !.hist = <<hcur(ss)>>]
            o == step(self, alone, call.x)
        IN /\ results = <<o.res>>
           /\ obs.mcalls = o.mcalls
           /\ obs.hreads = {1}
           /\ obs.order = 1

\* C7 (witness): a first step over a buffer that holds older entries, with a
\* positive cap, away from the end of the schedule.
C7_Witness ==
    /\ pc = "final"
    /\ self.name \in C7Classes
    /\ ss.idx = 0
    /\ Len(ss.hist) > 1
    /\ self.history_limit > 0
    /\ sigma_next(ss) # Zero

\* C8: with no available history, ipndm and ipndm_v give the sample and the
\* noise strength of each other and of euler, from the same input sample and
\* model result, for eta zero or not.
C8_OrderOneIsEuler ==
    (/\ pc = "final"
     /\ self.name \in {"ipndm", "ipndm_v"}
     /\ available_history(self, ss) = 0) =>
        LET a == ipndm_step([self EXCEPT !.name = "ipndm"], ss, call.x).res
            b == ipndm_v_step([self EXCEPT !.name = "ipndm_v"], ss, call.x).res
            e == euler_step([self EXCEPT !.name = "euler"], ss, call.x).res
        IN /\ results \in {<<a>>, <<b>>}
           /\ a.x = e.x /\ a.strength = e.strength
           /\ b.x = e.x /\ b.strength = e.strength

\* C8 (witness): an order-1 step of ipndm_v with eta # 0, not to sigma 0, that
\* moved the sample and carries noise.
C8_Witness ==
    /\ pc = "final"
    /\ self.name = "ipndm_v"
    /\ available_history(self, ss) = 0
    /\ self.eta # Zero
    /\ sigma_next(ss) # Zero
    /\ results[1].strength # Zero
    /\ results[1].x # call.x

\* The dpmpp_2m formulas: x' = (sn / s) x - (sn / s - 1) D, with D the current
\* denoised estimate (order 1) or its extrapolation from the previous one by
\* the ratio r of the last two log-sigma steps (order 2).
C9_Sample(c, sx, dd) ==
    QSub(QMul(QDiv(sigma_next(c), sigma(c)), sx),
         QMul(QSub(QDiv(sigma_next(c), sigma(c)), One), dd))

C9_Extrapolated(c) ==
    LET r == QDiv(QSub(Log(At(c.sigmas, c.idx - 1)), Log(sigma(c))),
                  QSub(Log(sigma(c)), Log(sigma_next(c))))
        w == QDiv(One, QMul(I(2), r))
    IN QSub(QMul(QAdd(One, w), Back(c.hist, 1).denoised),
            QMul(w, Back(c.hist, 2).denoised))

C9_Order1 == ancestralize_result(self, ss,
                 C9_Sample(ss, call.x, Back(ss.hist, 1).denoised))

C9_Order2 == ancestralize_result(self, ss,
                 C9_Sample(ss, call.x, C9_Extrapolated(ss)))

C9_Run ==
    /\ pc = "final"
    /\ self.name = "dpmpp_2m"
    /\ self.history_limit = 1
    /\ Len(ss.sigmas) = 5

\* C9 (as stated): dpmpp_2m with cap 1 over a 5-entry schedule uses the
\* order-1 formula at index 0 and the order-2 formula at indices 1, 2 and 3.
C9_OrderTwoAfterFirst ==
    C9_Run => IF ss.idx = 0 THEN results = <<C9_Order1>>
              ELSE results = <<C9_Order2>>

\* C9 (amended): index 0 uses the order-1 formula and the indices 1, 2 and 3
\* the order-2 formula, reading the previous history entry, as long as
\* sigma_next is not 0; the transition to sigma_next = 0 is the Euler step.
C9_OrderTwoUnlessLast ==
    C9_Run => IF sigma_next(ss) = Zero
              THEN results = <<euler_result(self, ss, call.x)>>
              ELSE IF ss.idx = 0
              THEN results = <<C9_Order1>> /\ obs.hreads = {1}
              ELSE results = <<C9_Order2>> /\ obs.hreads = {1, 2}

\* C9 (witness): the transition at index 3 of a schedule that does not end in
\* 0 extrapolated: its result is not the order-1 one.
C9_Witness ==
    /\ C9_Run
    /\ ss.idx = 3
    /\ sigma_next(ss) # Zero
    /\ results = <<C9_Order2>>
    /\ C9_Order2 # C9_Order1

(***************************************************************************)
(* One integration of the adaptive adapters on its own: the external       *)
(* solver invokes odefn with times and states of its choosing              *)
(***************************************************************************)
MaxOdeNfe == 3

MaxSolverCalls == 5

\* The call in progress: the arguments of the last invocation, the counters
\* before it, and the invocations at the step's starting point before it.
OdeIdle == [op |-> "none", t |-> Zero, y |-> Zero, evals |-> 0, reused |-> 0,
            starts |-> 0]

\* The state when TDEStep.step / TODEStep.step hands odefn to the solver,
\* for one batch element, sigma above ode_min_sigma.
InitOde ==
    \E cls \in {"tde", "tode"}, nfe \in 1..MaxOdeNfe, e \in {Zero, One},
       sigmas \in OdeSchedules :
      \E o \in {ode_step(New(cls, [DefaultKwargs EXCEPT
                                     !.eta = e, !.ode_max_nfe = nfe,
                                     !.ode_min_sigma = Some(Q(1, 4)),
                                     !.ode_fixup_hack = Q(1, 4)]),
                         Context(sigmas, 0), X0)} :
        /\ o.kind = "ode"
        /\ self = o.inst
        /\ ss = Context(sigmas, 0)
        /\ x = X0
        /\ pc = "ode"
        /\ frame = o.frame
        /\ results = <<>>
        /\ obs = FreshObs(0)
        /\ call = OdeIdle

AtStart(t, y) == t = sigma(ss) /\ y = x

\* The solver invokes odefn(t, y).
OdeSolve(t, y) ==
    /\ pc = "ode"
    /\ frame.calls < MaxSolverCalls
    /\ OdeApply(t, y)
    /\ call' = [op |-> "odefn", t |-> t, y |-> y, evals |-> frame.evals,
                reused |-> frame.reused,
                starts |-> call.starts + (IF call.op = "odefn"
                                             /\ AtStart(call.t, call.y)
                                          THEN 1 ELSE 0)]

NextOde == \E t \in OdeTimes, y \in OdeStates : OdeSolve(t, y)

SpecOde == InitOde /\ [][NextOde]_vars

(***************************************************************************)
(* C11, C12: the evaluation budget of the adaptive adapters                *)
(***************************************************************************)
C11_NoResultBeforeError ==
    pc = "failed" => /\ self.name \in {"tde", "tode"}
                     /\ frame.mcc >= self.ode_max_nfe
                     /\ results = <<>>

\* C11 (as stated): in tde and tode, whenever the derivative callback is
\* invoked after the evaluation counter of the step has reached ode_max_nfe,
\* it raises RuntimeError; the error ends the step, and the step has produced
\* no result before it.
C11_RaisesPastCap ==
    /\ C11_NoResultBeforeError
    /\ pc = "ode" /\ frame.mcc >= self.ode_max_nfe
         => \A t \in OdeTimes, y \in OdeStates :
               odefn(self, ss, frame, t, y).raised = "RuntimeError"

\* C11 (amended): the same for an invocation at a time above 1e-05; an
\* invocation at a time below 1e-05 returns zeros without an error, whatever
\* the counter, and leaves the counter alone.
C11_RaisesPastCapAboveEps ==
    /\ C11_NoResultBeforeError
    /\ pc = "ode" /\ frame.mcc >= self.ode_max_nfe
         => \A t \in OdeTimes, y \in OdeStates :
               IF QLt(OdeEps, t)
               THEN odefn(self, ss, frame, t, y).raised = "RuntimeError"
               ELSE /\ odefn(self, ss, frame, t, y).raised = ""
                    /\ odefn(self, ss, frame, t, y).val = Zero
                    /\ odefn(self, ss, frame, t, y).mcc = frame.mcc

\* C11 (witness): a step that failed in the callback, the counter at the cap.
C11_Witness ==
    /\ pc = "failed"
    /\ frame.mcc >= self.ode_max_nfe
    /\ frame.calls >= self.ode_max_nfe
    /\ results = <<>>

\* C12 (as stated): in tde and tode, whatever invocations the solver chooses,
\* the model evaluations of one integration never exceed ode_max_nfe, and the
\* first invocation at the starting point of the step took the current model
\* result instead of evaluating the model.
C12_BudgetRespected ==
    /\ frame.evals <= self.ode_max_nfe
    /\ (call.op = "odefn" /\ AtStart(call.t, call.y) /\ call.starts = 0
        /\ pc = "ode")
         => (frame.reused = call.reused + 1 /\ frame.evals = call.evals)

\* C12 (witness): an integration of tde that evaluated the model more than
\* ode_max_nfe times.
C12_Witness ==
    /\ self.name = "tde"
    /\ frame.evals > self.ode_max_nfe
    /\ frame.reused > 0

(***************************************************************************)
(* C13, C14: the adaptive adapters around ode_min_sigma                    *)
(***************************************************************************)
\* C13: in tde and tode, a step whose current sigma is at or below
\* ode_min_sigma produces exactly the results of the plain Euler step, one
\* terminal result with the same sample and strength, and invokes neither the
\* solver, nor the callback, nor the model.
C13_EulerBelowMinSigma ==
    (self.name \in {"tde", "tode"} /\ QLe(sigma(ss), self.ode_min_sigma)
     /\ pc # "idle")
      => /\ pc \in {"final", "done", "finished"}
         /\ results = <<euler_result(self, ss, call.x)>>
         /\ results[1].final
         /\ obs.mcalls = <<>>
         /\ "calls" \notin DOMAIN frame

\* C13 (witness): tde has ended a step from a sigma at ode_min_sigma to a
\* sigma_next above 0 with the Euler result, which carries noise.
C13_Witness ==
    /\ self.name = "tde"
    /\ pc = "final"
    /\ sigma(ss) = self.ode_min_sigma
    /\ sigma_next(ss) # Zero
    /\ results = <<euler_result(self, ss, call.x)>>
    /\ results[1].strength # Zero

\* The min-sigma-clamped target of the step, the noise strength of the
\* ancestral split towards it, and the sample the driver sent back after the
\* first result.
C14_Target == adjust_step(sigma_next(ss), self.ode_min_sigma)

C14_Up == ss_get_ancestral_step(ss, get_dyn_eta(self, ss), Some(C14_Target))[2]

C14_Sent ==
    noise_x(results[1], None, One, NoiseAt(obs.noisepos - obs.draws)).ret

C14_Corrected ==
    QAdd(C14_Sent,
         QMul(to_d(self, Model(C14_Sent, C14_Target), None, None),
              QSub(sigma_next(ss), C14_Target)))

\* C14: in tde and tode with sigma above ode_min_sigma, the step issues a
\* corrective sub-step (a non-terminal result with the ancestral noise
\* strength, then exactly one more model evaluation and one Euler update to
\* the context's sigma_next) if and only if the clamped target differs from
\* the context's sigma_next; after it the terminal result has strength 0, and
\* without it the single terminal result carries the ancestral strength.
C14_CorrectiveIffOffTarget ==
    (self.name \in {"tde", "tode"} /\ QLt(self.ode_min_sigma, sigma(ss))
     /\ pc \in {"suspended", "final", "done", "finished"})
      => IF C14_Target # sigma_next(ss)
         THEN /\ results[1] = NonFinal(ss, self, frame.result, C14_Up,
                                       sigma(ss), C14_Target)
              /\ IF pc = "suspended" THEN Len(results) = 1
                 ELSE /\ Len(results) = 2
                      /\ results[2] = result(ss, self, C14_Corrected, Zero)
                      /\ results[2].final
                      /\ obs.mcalls[Len(obs.mcalls)]
                           = ModelCall(C14_Sent, C14_Target, frame.mcc)
                      /\ ss.batch = 1 => Len(obs.mcalls) = frame.evals + 1
         ELSE /\ pc # "suspended"
              /\ results = <<result(ss, self, frame.result, C14_Up)>>
              /\ ss.batch = 1 => Len(obs.mcalls) = frame.evals

\* C14 (witness): tode has ended a step with a corrective sub-step whose
\* first result carried noise, after the solver evaluated the model.
C14_Witness ==
    /\ self.name = "tode"
    /\ pc = "final"
    /\ QLt(self.ode_min_sigma, sigma(ss))
    /\ C14_Target # sigma_next(ss)
    /\ Len(results) = 2
    /\ results[1].strength # Zero
    /\ results[2].strength = Zero
    /\ Len(obs.mcalls) = 2

(***************************************************************************)
(* Construction with enumerated options of any value, then the run         *)
(***************************************************************************)
NewClasses == {STEP_SAMPLERS[k] : k \in DOMAIN STEP_SAMPLERS}

\* One run per class, long enough for a multistep update.
NewSchedules(cls) ==
    IF cls \in {"tde", "tode"} THEN {Sched(<<16, 4>>)}
    ELSE {Sched(<<16, 4, 1>>)}

\* The keyword arguments the caller may pass: the enumerated option of the
\* class at recognized values and at one that is not, and cfgpp_scale left
\* out or given.
EnumKwargs(cls) ==
    {[DefaultKwargs EXCEPT !.dyn_deta_mode = IF cls = "euler_dancing"
                                             THEN v ELSE @,
                           !.solver_type = IF cls = "dpmpp_2m_sde"
                                           THEN v ELSE @,
                           !.ode_solver = IF cls = "tode" THEN v ELSE @,
                           !.cfgpp_scale = cf,
                           !.ode_max_nfe = MaxNfe,
                           !.ode_min_sigma = Some(Q(1, 4)),
                           !.ode_fixup_hack = Q(1, 4)] :
        v \in CASE cls = "euler_dancing" -> {"lerp", "deta", "bogus"}
                [] cls = "dpmpp_2m_sde" -> {"midpoint", "heun", "bogus"}
                [] cls = "tode" -> {"dopri5", "bogus"}
                [] OTHER -> {""},
        cf \in {DefaultKwargs.cfgpp_scale, Half}}

\* No instance yet.
Unbuilt == [name |-> "none"]

InitNew ==
    \E cls \in NewClasses, older \in {0, OlderHist} :
      \E sigmas \in NewSchedules(cls) :
        /\ self = Unbuilt
        /\ ss = Context(sigmas, older)
        /\ x = X0
        /\ pc = "new"
        /\ frame = NoFrame
        /\ results = <<>>
        /\ obs = FreshObs(0)
        /\ call = [op |-> "new", cls |-> cls, error |-> "",
                    cfgpp_scale |-> Zero]

\* The caller constructs the integrator: __init__ raises or returns.
Construct ==
    /\ pc = "new"
    /\ \E kw \in EnumKwargs(call.cls) :
         \E err \in {init_error(call.cls, kw)} :
           /\ call' = [op |-> "init", cls |-> call.cls, error |-> err,
                       cfgpp_scale |-> kw.cfgpp_scale]
           /\ IF err # ""
              THEN pc' = "rejected" /\ self' = self
              ELSE pc' = "idle" /\ self' = New(call.cls, kw)
    /\ UNCHANGED <<ss, x, frame, results, obs>>

NextNew ==
    \/ Construct
    \/ BeginStep
    \/ OdeCall
    \/ OdeReturn
    \/ Resume
    \/ Consume
    \/ NextStep
    \/ Finish

SpecNew == InitNew /\ [][NextNew]_vars

(***************************************************************************)
(* C15: enumerated options                                                 *)
(***************************************************************************)
\* C15 (as stated): an unrecognized value of an enumerated option
\* (dyn_deta_mode of euler_dancing, solver_type of dpmpp_2m_sde, ode_solver of
\* tode) is rejected with an error by the constructor, so every instance
\* that exists, and every instance a step runs on, holds recognized values.
C15_UnrecognizedRejected ==
    /\ pc = "rejected" => call.error # ""
    /\ pc \notin {"new", "rejected"}
         => /\ self.name = "euler_dancing"
                 => self.dyn_deta_mode \in {"lerp", "lerp_alt", "deta"}
            /\ self.name = "dpmpp_2m_sde"
                 => self.solver_type \in {"midpoint", "heun"}
            /\ self.name = "tode" => self.ode_solver_name \in TODE_METHODS

\* C15 (witness): dpmpp_2m_sde built with an unrecognized solver_type has
\* run a step with history available and sigma_next above 0, where the
\* second-order term depends on solver_type.
C15_Witness ==
    /\ pc = "final"
    /\ call.op = "step"
    /\ self.name = "dpmpp_2m_sde"
    /\ self.solver_type = "bogus"
    /\ sigma_next(ss) # Zero
    /\ available_history(self, ss) > 0
    /\ Len(results) = 1

(***************************************************************************)
(* C16: cfgpp_scale                                                        *)
(***************************************************************************)
\* C16: an instance of a class with allow_cfgpp False has cfgpp_scale 0 after
\* construction, whatever value was configured, and through every step; an
\* instance of a class that allows it has the configured value after
\* construction (0.0 when none was supplied).
C16_CfgppScale ==
    pc \notin {"new", "rejected"}
      => /\ ~allow_cfgpp(self.name) => self.cfgpp_scale = Zero
         /\ allow_cfgpp(self.name) /\ call.op = "init"
              => self.cfgpp_scale = call.cfgpp_scale

\* C16 (witness): an instance of a class that does not allow the correction,
\* configured with cfgpp_scale 0.5, has been built.
C16_Witness ==
    /\ pc = "idle"
    /\ call.op = "init"
    /\ call.cfgpp_scale = Half
    /\ ~allow_cfgpp(self.name)
    /\ self.cfgpp_scale = Zero

(***************************************************************************)
(* Two runs of one instance over the same schedule, eta = 0                *)
(***************************************************************************)
TwiceSchedules(cls) ==
    IF cls \in {"tde", "tode"} THEN OdeSchedules
    ELSE {Sched(<<16, 4, 1, 0>>), Sched(<<4, 1, 16, 4>>)}

\* The driver's record of the runs, kept beside the context: which run this
\* is, and the results of every step of the first one.
TwiceContext(sigmas, run, first) ==
    Context(sigmas, 0) @@ [run |-> run, first |-> first]

InitTwice ==
    \E key \in DOMAIN STEP_SAMPLERS :
      \E kw \in {k \in Configs(STEP_SAMPLERS[key]) : k.eta = Zero},
         sigmas \in TwiceSchedules(STEP_SAMPLERS[key]) :
        /\ self = New(STEP_SAMPLERS[key], kw)
        /\ ss = TwiceContext(sigmas, 1, <<>>)
        /\ x = X0
        /\ pc = "idle"
        /\ frame = NoFrame
        /\ results = <<>>
        /\ obs = FreshObs(0)
        /\ call = [op |-> "none"]

\* The external solver, a deterministic one: it evaluates the derivative at
\* the start of the step, then at its end from its estimate, and returns.
OdeFixed ==
    /\ pc = "ode"
    /\ frame.calls < 2
    /\ IF frame.calls = 0 THEN OdeEval(sigma(ss), x)
       ELSE OdeEval(frame.sigma_down, frame.result)

OdeFixedReturn ==
    /\ pc = "ode"
    /\ frame.calls = 2
    /\ OdeReturn

\* NextStep, the results of the step recorded in the first run.
TwiceNextStep ==
    /\ pc = "done"
    /\ ss.idx + 2 < Len(ss.sigmas)
    /\ ss' = [ss EXCEPT !.idx = @ + 1,
                        !.hist = Append(@, Model(x, sigma_next(ss))),
                        !.first = IF ss.run = 1 THEN Append(@, results) ELSE @]
    /\ pc' = "idle"
    /\ UNCHANGED <<self, x, frame, results, obs, call>>

\* The first run is over: the same instance is run again over the same
\* schedule, from the same sample, the noise source seeded as before.
TwiceRestart ==
    /\ pc = "done"
    /\ ss.idx + 2 = Len(ss.sigmas)
    /\ ss.run = 1
    /\ ss' = TwiceContext(ss.sigmas, 2, Append(ss.first, results))
    /\ x' = X0
    /\ pc' = "idle"
    /\ frame' = NoFrame
    /\ results' = <<>>
    /\ obs' = FreshObs(0)
    /\ call' = [op |-> "none"]
    /\ UNCHANGED self

TwiceFinish ==
    /\ ss.run = 2
    /\ Finish

NextTwice ==
    \/ BeginStep
    \/ OdeFixed
    \/ OdeFixedReturn
    \/ Resume
    \/ Consume
    \/ TwiceNextStep
    \/ TwiceRestart
    \/ TwiceFinish

SpecTwice == InitTwice /\ [][NextTwice]_vars

(***************************************************************************)
(* C17: determinism at eta = 0                                             *)
(***************************************************************************)
\* C17: with eta = 0, a second run of the same instance over the same
\* schedule, input sample, model outputs and noise seed yields, step by step,
\* the result sequence of the first run; what the first run left in the
\* instance (the deis coefficient cache) does not change it.
C17_SecondRunSame ==
    ss.run = 2 =>
        /\ pc # "failed"
        /\ pc \in {"final", "done", "finished"}
             => results = ss.first[ss.idx + 1]
        /\ pc = "suspended"
             => /\ Len(results) < Len(ss.first[ss.idx + 1])
                /\ results = SubSeq(ss.first[ss.idx + 1], 1, Len(results))

\* C17 (witness): deis, in its second run, has ended a step of order 2 or
\* more with the coefficients its first run cached.
C17_Witness ==
    /\ ss.run = 2
    /\ pc = "final"
    /\ self.name = "deis"
    /\ obs.order >= 2
    /\ self.deis_coeffs_key = Some(deis_key(self, ss))
    /\ results = ss.first[ss.idx + 1]

(***************************************************************************)
(* C18: what a step leaves alone                                           *)
(***************************************************************************)
\* A transition made by the code of a step: the call of step, a resumption
\* of the generator, a callback of the solver or its return.
C18_InStep == pc \in {"idle", "suspended", "ode"}

\* C18: no step changes the history buffer, the noise-level sequence or the
\* index of the context; the only attributes of the instance a step may
\* change are the deis cache key and table; and the evaluation counter of an
\* adaptive adapter starts from 0 in every step call, whatever the step
\* before left.
C18_FrameCondition ==
    [][C18_InStep =>
         /\ ss' = ss
         /\ self' = [self EXCEPT !.deis_coeffs_key = self'.deis_coeffs_key,
                                 !.deis_coeffs = self'.deis_coeffs]
         /\ self.name # "deis" => self' = self
         /\ (pc = "idle" /\ pc' = "ode")
              => (frame'.mcc = 0 /\ frame'.calls = 0 /\ frame'.evals = 0)]_vars

\* C18 (witness): a later step of an adaptive adapter is at its solver call
\* with the counter at 0, after a step that counted evaluations; the history
\* holds what the driver appended.
C18_Witness ==
    /\ self.name = "tode"
    /\ ss.idx = 1
    /\ pc = "ode"
    /\ frame.calls = 0
    /\ frame.mcc = 0
    /\ Len(ss.hist) = 2

(***************************************************************************)
(* C19: heunpp2                                                            *)
(***************************************************************************)
C19_Order ==
    Min(self.max_order, Max(0, Len(ss.sigmas) - (ss.idx + 2)) + 1)

\* C19: heunpp2, at every index from 0 to len - 2, uses the order
\* min(max_order, max(0, len - (idx + 2)) + 1), max_order being within 1..3;
\* it reads sigmas[idx + 2] only when idx + 2 <= len - 1; the last transition
\* is the Euler step; and it makes order - 1 model calls.
C19_OrderAndReads ==
    (self.name = "heunpp2" /\ pc \in {"final", "done", "finished"})
      => /\ self.max_order \in 1..3
         /\ obs.order = C19_Order
         /\ Len(obs.mcalls) = C19_Order - 1
         /\ \A i \in 1..Len(obs.mcalls) : obs.mcalls[i].model_call_idx = i
         /\ obs.sreads \subseteq 0..(Len(ss.sigmas) - 1)
         /\ (ss.idx + 2) \in obs.sreads <=> C19_Order = 3
         /\ ss.idx = Len(ss.sigmas) - 2
              => /\ results = <<euler_result(self, ss, call.x)>>
                 /\ obs.mcalls = <<>>

\* C19 (witness): heunpp2 has ended a step of order 3 on a 5-entry schedule,
\* two model calls made and sigmas[idx + 2] read.
C19_Witness ==
    /\ self.name = "heunpp2"
    /\ pc = "final"
    /\ C19_Order = 3
    /\ Len(obs.mcalls) = 2
    /\ (ss.idx + 2) \in obs.sreads
    /\ Len(ss.sigmas) = 5

(***************************************************************************)
(* C20: euler_dancing                                                      *)
(***************************************************************************)
\* A step of euler_dancing towards a sigma_next other than 0 has run.
C20_Case ==
    /\ self.name = "euler_dancing"
    /\ sigma_next(ss) # Zero
    /\ pc \in {"suspended", "final", "done", "finished"}

C20_CurrLeap == dancing_leap(self, ss)[1]

C20_Target == dancing_leap(self, ss)[2]

\* The entry at offset C20_CurrLeap exists and the schedule does not rise
\* from the current index up to it.
C20_InRun ==
    /\ ss.idx + C20_CurrLeap <= Len(ss.sigmas) - 1
    /\ \A j \in 1..C20_CurrLeap :
         ~QLt(At(ss.sigmas, ss.idx + j - 1), At(ss.sigmas, ss.idx + j))

\* No entry from the current index up to that offset is 0 or less.
C20_BeforeZero ==
    \A j \in 0..C20_CurrLeap :
        ss.idx + j <= Len(ss.sigmas) - 1 => QLt(Zero, At(ss.sigmas, ss.idx + j))

C20_LeapOfStep ==
    /\ 1 <= C20_CurrLeap
    /\ C20_CurrLeap <= Max(1, self.leap)
    /\ "curr_leap" \in DOMAIN frame
         => frame.curr_leap = C20_CurrLeap /\ frame.sigma_leap = C20_Target
    /\ ss.idx + C20_CurrLeap <= Len(ss.sigmas) - 1
    /\ C20_Target = At(ss.sigmas, ss.idx + C20_CurrLeap)
    /\ C20_BeforeZero
    /\ QLt(Zero, C20_Target)
    /\ obs.sreads \subseteq 0..(Len(ss.sigmas) - 1)
    /\ C20_CurrLeap = 1
         => /\ C20_Target = sigma_next(ss)
            /\ pc # "suspended"
            /\ Len(results) = 1
            /\ results[1].final
    /\ pc = "suspended" => results[1].sigma_next = C20_Target

\* C20 (as stated): in every step of euler_dancing with sigma_next other than
\* 0, the leap target is the schedule entry at offset curr_leap, with
\* 1 <= curr_leap <= max(1, leap); it lies inside the decreasing run that
\* starts at the current index and before the first entry of the run that is
\* 0 or less; and with curr_leap = 1 the target is sigma_next and the step
\* yields a single terminal result.
C20_LeapInsideRun == C20_Case => (C20_LeapOfStep /\ C20_InRun)

\* C20 (amended): the same, the target lying inside the decreasing run
\* whenever sigma_next is not above sigma; where the schedule rises at the
\* current index, curr_leap is 1 and the target is sigma_next, outside the
\* run.
C20_LeapInsideRunUnlessRising ==
    C20_Case => /\ C20_LeapOfStep
                /\ IF QLt(sigma(ss), sigma_next(ss))
                   THEN C20_CurrLeap = 1 /\ C20_Target = sigma_next(ss)
                        /\ ~C20_InRun
                   ELSE C20_InRun

\* C20 (witness): euler_dancing has leapt two entries ahead and is suspended
\* with the non-terminal result of the leap.
C20_Witness ==
    /\ C20_Case
    /\ pc = "suspended"
    /\ C20_CurrLeap = 2
    /\ C20_Target = At(ss.sigmas, ss.idx + 2)
    /\ C20_Target # sigma_next(ss)

(***************************************************************************)
(* C21: dpmpp_sde                                                          *)
(***************************************************************************)
\* The midpoint sigma of the step, the noise strength of the split towards
\* it, and the sample the driver handed back after the first result.
C21_Mid ==
    sigma_fn(QAdd(t_fn(sigma(ss)),
                  QMul(QSub(t_fn(sigma_next(ss)), t_fn(sigma(ss))), self.r)))

C21_Up == get_ancestral_step(sigma(ss), C21_Mid, get_dyn_eta(self, ss))[2]

C21_Sent ==
    noise_x(results[1], None, One, NoiseAt(obs.noisepos - obs.draws)).ret

\* C21: dpmpp_sde with sigma_next other than 0 first yields exactly one
\* non-terminal result for the transition sigma -> midpoint sigma, with the
\* up term of the ancestral split as strength; it evaluates the model at the
\* midpoint only after it was resumed, on the sample handed back; then it
\* yields the terminal result for the transition to sigma_next.
C21_TwoStages ==
    (self.name = "dpmpp_sde" /\ sigma_next(ss) # Zero /\ pc # "idle")
      => /\ pc \in {"suspended", "final", "done", "finished"}
         /\ ~results[1].final
         /\ results[1].sigma = sigma(ss)
         /\ results[1].sigma_next = C21_Mid
         /\ results[1].strength = C21_Up
         /\ IF pc = "suspended"
            THEN Len(results) = 1 /\ obs.mcalls = <<>>
            ELSE /\ Len(results) = 2
                 /\ obs.mcalls = <<ModelCall(C21_Sent, C21_Mid, 1)>>
                 /\ results[2].final
                 /\ results[2].sigma = sigma(ss)
                 /\ results[2].sigma_next = sigma_next(ss)

\* C21 (witness): dpmpp_sde has ended a step whose first result was noised
\* by the driver, so that the sample evaluated at the midpoint is not the one
\* the step yielded.
C21_Witness ==
    /\ self.name = "dpmpp_sde"
    /\ sigma_next(ss) # Zero
    /\ pc = "final"
    /\ Len(results) = 2
    /\ C21_Sent # results[1].x
    /\ C21_Sent # call.x
    /\ obs.mcalls = <<ModelCall(C21_Sent, C21_Mid, 1)>>

(***************************************************************************)
(* C22: model evaluations per step                                         *)
(***************************************************************************)
\* The numbers the claim gives for the classes it lists.
C22_Stated(cls) ==
    CASE cls \in {"euler", "euler_cycle", "euler_dancing", "dpmpp_2m",
                  "dpmpp_2m_sde", "dpmpp_3m_sde", "ipndm", "ipndm_v", "deis"} -> 0
      [] cls \in {"trapezoidal", "reversible_heun", "reversible_heun_1s", "res",
                  "dpmpp_2s", "dpmpp_sde", "ttm_jvp"} -> 1
      [] cls \in {"bogacki", "heunpp2"} -> 2
      [] cls = "rk4" -> 3
      [] OTHER -> model_calls(cls)

\* C22: for every integrator but tde and tode, the model evaluations of one
\* step do not exceed the declared model_calls of its class (the numbers
\* listed), they carry model_call_idx 1, 2, ... in call order, and
\* reversible_heun_1s evaluates the model only when no history is available.
C22_ModelCallsWithinDeclared ==
    (self.name \notin {"tde", "tode"}
     /\ pc \in {"suspended", "final", "done", "finished"})
      => /\ model_calls(self.name) = C22_Stated(self.name)
         /\ Len(obs.mcalls) <= model_calls(self.name)
         /\ \A i \in 1..Len(obs.mcalls) : obs.mcalls[i].model_call_idx = i
         /\ (self.name = "reversible_heun_1s" /\ obs.mcalls # <<>>)
              => available_history(self, ss) = 0

\* C22 (witness): rk4 has ended a step with its three model evaluations.
C22_Witness ==
    /\ self.name = "rk4"
    /\ pc = "final"
    /\ Len(obs.mcalls) = 3
    /\ obs.mcalls[3].model_call_idx = 3

\* The derivative of the k-th most recent history entry, hist[-k].
C23_D(k) == to_d(self, Back(ss.hist, k), None, None)

\* The ipndm slope of each order, written out: the coefficient of position j
\* of the table row multiplies the derivative of hist[-(j + 1)].
C23_IpndmSlope ==
    CASE available_history(self, ss) = 1 ->
           QDiv(QSub(QMul(I(3), C23_D(1)), C23_D(2)), I(2))
      [] available_history(self, ss) = 2 ->
           QDiv(QAdd(QSub(QMul(I(23), C23_D(1)), QMul(I(16), C23_D(2))),
                     QMul(I(5), C23_D(3))), I(12))
      [] available_history(self, ss) = 3 ->
           QDiv(QSub(QAdd(QSub(QMul(I(55), C23_D(1)), QMul(I(59), C23_D(2))),
                          QMul(I(37), C23_D(3))), QMul(I(9), C23_D(4))), I(24))
      [] OTHER -> C23_D(1)

\* C23: in every step of a history-bounded integrator, on a context with a
\* stored history entry and 0 <= idx <= len(sigmas) - 2, each history entry
\* hist[-k] read has 1 <= k <= available_history + 1 <= len(hist), each noise
\* level read has an index from 0 to len(sigmas) - 1, and an ipndm step not to
\* sigma 0 applies the coefficient of position j to the j-th most recent
\* earlier entry.
C23_ReadsInsideBuffers ==
    (/\ self.name \in HistoryClasses
     /\ pc \in {"suspended", "final", "done", "finished"}
     /\ Len(ss.hist) >= 1
     /\ 0 <= ss.idx /\ ss.idx <= Len(ss.sigmas) - 2)
      => /\ available_history(self, ss) + 1 <= Len(ss.hist)
         /\ \A k \in obs.hreads :
                1 <= k /\ k <= available_history(self, ss) + 1
         /\ \A i \in obs.sreads : 0 <= i /\ i <= Len(ss.sigmas) - 1
         /\ (self.name = "ipndm" /\ sigma_next(ss) # Zero)
              => results = <<ancestralize_result(
                                 self, ss,
                                 QAdd(call.x, QMul(dt(ss), C23_IpndmSlope)))>>

\* C23 (witness): an order-3 ipndm step that read hist[-1..-3], whose two
\* earlier entries have different derivatives, on a buffer holding more
\* entries than it may read.
C23_Witness ==
    /\ pc = "final"
    /\ self.name = "ipndm"
    /\ sigma_next(ss) # Zero
    /\ available_history(self, ss) = 2
    /\ Len(ss.hist) > 3
    /\ obs.hreads = {1, 2, 3}
    /\ C23_D(2) # C23_D(3)
    /\ results[1].x # call.x

\* A result whose noise injection is not a no-op.
C24_Noisy(r) == r.sigma_next # Zero /\ QMul(r.strength, r.s_noise) # Zero

C24_NoisyResults == {i \in 1..Len(results) : C24_Noisy(results[i])}

\* C24: in every step of every integrator, the results whose noise injection
\* is not a no-op number at most 1 + self_noise, which is max_noise_samples()
\* over substeps; an adaptive adapter that produced a non-terminal result
\* gives its terminal result strength zero.
C24_NoisyResultsWithinDeclared ==
    pc \in {"suspended", "final", "done", "finished"}
      => /\ Cardinality(C24_NoisyResults) <= 1 + self_noise(self.name)
         /\ (1 + self_noise(self.name)) * self.substeps = max_noise_samples(self)
         /\ \A i \in 1..Len(results) :
                C24_Noisy(results[i]) <=> ~NoiseFree(results[i])
         /\ (self.name \in {"tde", "tode"} /\ Len(results) = 2)
              => ~results[1].final /\ results[2].strength = Zero

\* C24 (witness): a dpmpp_sde step with both of its results noisy.
C24_Witness ==
    /\ pc = "final"
    /\ Len(results) = 2
    /\ self.name = "dpmpp_sde"
    /\ C24_NoisyResults = {1, 2}

\* An adapter step whose non-terminal result is noisy and whose terminal
\* result is not.
C24_AdapterWitness ==
    /\ pc = "final"
    /\ Len(results) = 2
    /\ self.name \in {"tde", "tode"}
    /\ C24_NoisyResults = {1}

(***************************************************************************)
(* One deis instance run over one schedule, then over another              *)
(***************************************************************************)
\* Two schedules with the same length, first and last level that differ in
\* between, and a shorter one.
RunsSchedules ==
    {Sched(<<64, 16, 4, 1>>), Sched(<<64, 32, 4, 1>>), Sched(<<16, 4, 1>>)}

InitRuns ==
    \E kw \in Configs("deis"), sigmas \in RunsSchedules :
        /\ self = New("deis", kw)
        /\ ss = TwiceContext(sigmas, 1, <<>>)
        /\ x = X0
        /\ pc = "idle"
        /\ frame = NoFrame
        /\ results = <<>>
        /\ obs = FreshObs(0)
        /\ call = [op |-> "none"]

\* The first run is over: the same instance is run over another schedule,
\* from the same sample.
RunsRestart(sigmas) ==
    /\ pc = "done"
    /\ ss.idx + 2 = Len(ss.sigmas)
    /\ ss.run = 1
    /\ sigmas # ss.sigmas
    /\ ss' = TwiceContext(sigmas, 2, <<>>)
    /\ x' = X0
    /\ pc' = "idle"
    /\ frame' = NoFrame
    /\ results' = <<>>
    /\ obs' = FreshObs(0)
    /\ call' = [op |-> "none"]
    /\ UNCHANGED self

NextRuns ==
    \/ BeginStep
    \/ Consume
    \/ NextStep
    \/ \E sigmas \in RunsSchedules : RunsRestart(sigmas)
    \/ TwiceFinish

SpecRuns == InitRuns /\ [][NextRuns]_vars

(***************************************************************************)
(* C25: the deis coefficient table and the schedule of the step            *)
(***************************************************************************)
\* The table computed from the noise levels of the step's own context.
C25_OwnTable == get_deis_coeff_list(ss.sigmas, self.history_limit + 1)

\* The result of the step when it uses the table of its own context.
C25_OwnResult ==
    deis_step([self EXCEPT !.deis_coeffs_key = None, !.deis_coeffs = None],
              ss, call.x).res

\* C25 (as stated): after any sequence of steps on one deis instance, over
\* one schedule or several, the coefficient table a step of order 2 or more
\* has used is the table computed from the noise levels of its own context,
\* and so is its result.
C25_TableOfOwnSchedule ==
    (self.name = "deis" /\ pc \in {"final", "done", "finished"}
     /\ obs.order >= 2)
      => /\ self.deis_coeffs = Some(C25_OwnTable)
         /\ results = <<C25_OwnResult>>

\* C25 (witness): a step of order 2 of the second run, over a schedule with
\* the key of the first, has used the table of the first schedule and the
\* result differs from the one its own table gives.
C25_Witness ==
    /\ self.name = "deis"
    /\ pc = "final"
    /\ ss.run = 2
    /\ obs.order >= 2
    /\ self.deis_coeffs_key = Some(deis_key(self, ss))
    /\ self.deis_coeffs # Some(C25_OwnTable)
    /\ results[1].x # C25_OwnResult.x

====
